---- MODULE Spec2Model ----
(***************************************************************************)
(* A model of the CVD collection pipeline of oi-pulse-watcher: the         *)
(* auto-collect-cvd edge function (snapshot aggregation, alert             *)
(* classification with cooldown, batch scheduling) and its retrying fetch  *)
(* client.                                                                 *)
(*                                                                         *)
(* Numbers are integers: prices, quantities and open interest are counted  *)
(* in whole units, times in milliseconds.  A value that the code holds as  *)
(* NaN, null or undefined is None (the empty sequence); a present number   *)
(* n is Some(n) = <<n>>.                                                   *)
(***************************************************************************)
EXTENDS Integers, Sequences, FiniteSets, TLC

\* ------------------------------------------------------------------------
\* Program constants
\* ------------------------------------------------------------------------
SNAP_INTERVAL_MS == 5 * 60 * 1000
DEFAULT_BACKFILL_INTERVALS == 24
MAX_TRADES_PER_REQUEST == 1000
\* 1e-8 in the source; every quantity of the model is a whole number, so
\* |x| <= 1e-8 holds exactly when |x| <= 0.
EPSILON == 0
EPSILON_NANO == 10       \* 1e-8 in units of 1e-9
COOLDOWN_MS == 15 * 60 * 1000
RECENT_LIMIT == 60
TOP_DIVERGENCE_WINDOW == 12
BATCH_SIZE == 3
RETRIES_DEFAULT == 3
BATCH_LIMIT == 100

\* ------------------------------------------------------------------------
\* Bounds of the model
\* ------------------------------------------------------------------------
StartEpoch == 30        \* the model starts at bucket number StartEpoch
MaxInvocations == 2     \* invocations of processCoin in one exploration
MaxTicks == 2           \* how many intervals the clock may advance
StartOffsetMs == 1000   \* the clock starts this far into its bucket
MaxTrades == 2          \* trades the upstream feed may publish
MaxPriceMoves == 1      \* times the upstream mark price may change
MaxOiMoves == 1         \* times the upstream open interest may change
MaxCoins == 7           \* enabled symbols of one scheduler run
MaxHistory == 3         \* OI history points handed to detectWhaleSignal
MaxAlerts == 2          \* rows of the alerts table the dispatcher sees
MaxSubscribers == 2     \* subscribed telegram users
MaxDispatches == 2      \* requests to the dispatcher
MaxRuns == 3            \* collection runs
MaxBfTrades == 3        \* trades the backfill collects
PageCap == 2            \* trades per page, standing for MAX_TRADES_PER_REQUEST
PgHalfRangeMs == 2      \* milliseconds of the fetched range on either side of a bucket boundary
MaxPgTrades == 3        \* trades the upstream holds around the fetched range
MaxWalkBuckets == 3     \* buckets of one bucket walk

T0 == StartEpoch * SNAP_INTERVAL_MS
TickMs == SNAP_INTERVAL_MS
MaxNow == T0 + StartOffsetMs + MaxTicks * TickMs

None == <<>>
Some(x) == <<x>>
Val(o) == o[1]

Abs(x) == IF x < 0 THEN -x ELSE x
Min(a, b) == IF a < b THEN a ELSE b
Max(a, b) == IF a > b THEN a ELSE b

\* Upstream values the environment may publish.
BASE_PRICE == 100
Prices == {BASE_PRICE, 103}
BaseOi == [contracts |-> 5, value |-> 500]
OiSamples == {BaseOi, [contracts |-> 5, value |-> 530]}
Quantities == {1}

\* Symbols are sequences of characters so that the pattern test can be
\* computed.  "BUSDT" is well formed, "bUSDT" is not.
UpperAlnum ==
  { "A", "B", "C", "D", "E", "F", "G", "H", "I", "J", "K", "L", "M",
    "N", "O", "P", "Q", "R", "S", "T", "U", "V", "W", "X", "Y", "Z",
    "0", "1", "2", "3", "4", "5", "6", "7", "8", "9" }
SymGood == << "B", "U", "S", "D", "T" >>
SymBad == << "b", "U", "S", "D", "T" >>
Symbols == {SymGood, SymBad}

Runner1 == "run1"
Runner2 == "run2"
Runners == {Runner1, Runner2}

VARIABLES
  now,        \* wall clock, ms
  trades,     \* upstream aggTrades feed of the symbol, in arrival order
  klines,     \* upstream mark-price close per bucket since T0
  oiHist,     \* upstream open-interest sample per bucket since T0
  cvd_data,   \* the snapshot table, rows in physical order
  alerts,     \* the alert table, rows in physical order
  run,        \* per invocation: position in processCoin and its locals
  seenTrades, \* how many trades the feed held at the latest trade fetch
  invocations,\* how many times processCoin has been entered
  sched,      \* the batch scheduler (serve)
  fw,         \* one call of fetchWithRetry
  cls,        \* one call of determineAlert on given rows
  whale,      \* one call of detectWhaleSignal
  tg,         \* the telegram-alert dispatcher
  reg,        \* the symbol registry monitored_coins and a run's use of it
  bf,         \* one request to backfill-cvd-history
  pg,         \* one call of fetchCvdDeltas, page by page
  walk,       \* one bucket walk of processCoin on given series
  pct         \* one call of safePercentChange

vars == << now, trades, klines, oiHist, cvd_data, alerts, run, seenTrades, invocations,
           sched, fw, cls, whale, tg, reg, bf, pg, walk, pct >>

storeVars == << now, trades, klines, oiHist, cvd_data, alerts, run, seenTrades, invocations >>

\* ------------------------------------------------------------------------
\* Pure helpers of the edge function
\* ------------------------------------------------------------------------
alignToInterval(timestamp) ==
  (timestamp \div SNAP_INTERVAL_MS) * SNAP_INTERVAL_MS

RECURSIVE generateBuckets(_, _)
generateBuckets(start, end) ==
  IF start <= end
    THEN << start >> \o generateBuckets(start + SNAP_INTERVAL_MS, end)
    ELSE << >>

\* A percentage is kept exact as a fraction num/den with den > 0.
Pct(num, den) == [num |-> num, den |-> den]
PctZero == Pct(0, 1)
PctGe(p, k) == p.num >= k * p.den
PctLe(p, k) == p.num <= k * p.den
PctGt(p, k) == p.num > k * p.den
PctAbs(p) == Pct(Abs(p.num), p.den)

\* The change divided by previous instead of |previous|.
safePercentChangeSigned(current, previous, epsilon) ==
  IF current = None \/ previous = None THEN PctZero
  ELSE IF Abs(Val(previous)) <= epsilon THEN PctZero
  ELSE IF Val(previous) < 0
    THEN Pct(-(Val(current) - Val(previous)) * 100, Abs(Val(previous)))
    ELSE Pct((Val(current) - Val(previous)) * 100, Abs(Val(previous)))

\* safePercentChange on numbers counted in a unit of which epsilon is the
\* floor; None is a number that is not finite.
safePercentChangeAt(current, previous, epsilon) ==
  IF current = None \/ previous = None THEN PctZero
  ELSE IF Abs(Val(previous)) <= epsilon THEN PctZero
  ELSE Pct((Val(current) - Val(previous)) * 100, Abs(Val(previous)))

\* On whole numbers the floor of 1e-8 leaves zero alone.
safePercentChange(current, previous) == safePercentChangeAt(current, previous, EPSILON)

toNumber(value) == value

\* The pattern test without the character class: /^.{1,10}USDT$/.
symbolPatternAnyPrefix(symbol) ==
  /\ Len(symbol) >= 5
  /\ Len(symbol) - 4 <= 10
  /\ SubSeq(symbol, Len(symbol) - 3, Len(symbol)) = << "U", "S", "D", "T" >>

symbolPatternTest(symbol) ==
  /\ Len(symbol) >= 5
  /\ Len(symbol) - 4 <= 10
  /\ SubSeq(symbol, Len(symbol) - 3, Len(symbol)) = << "U", "S", "D", "T" >>
  /\ \A i \in 1..(Len(symbol) - 4) : symbol[i] \in UpperAlnum

MapGet(m, k, default) == IF k \in DOMAIN m THEN m[k] ELSE default

\* ------------------------------------------------------------------------
\* The upstream provider, as the three fetch functions see it
\* ------------------------------------------------------------------------
BucketIndex(b) == (b - T0) \div SNAP_INTERVAL_MS + 1

\* Candles and samples exist upstream for every bucket up to the one the
\* clock is in; before T0 they hold the base values.
UpstreamClose(b) == IF b < T0 THEN BASE_PRICE ELSE klines[BucketIndex(b)]
UpstreamOi(b) == IF b < T0 THEN BaseOi ELSE oiHist[BucketIndex(b)]

AlignedIn(lo, hiExclusive) ==
  { k * SNAP_INTERVAL_MS :
      k \in ((lo + SNAP_INTERVAL_MS - 1) \div SNAP_INTERVAL_MS) ..
            ((hiExclusive - 1) \div SNAP_INTERVAL_MS) }

\* fetchMarkPriceSeries: close price per bucket of [startTime, endExclusive);
\* an empty map when the request fails.
fetchMarkPriceSeries(ok, startTime, endExclusive) ==
  LET safeStart == Max(0, startTime)
      safeEnd == Max(safeStart + SNAP_INTERVAL_MS, endExclusive)
      bucketCount == (safeEnd - safeStart + SNAP_INTERVAL_MS - 1) \div SNAP_INTERVAL_MS
      limit == Min(1500, bucketCount + 5)
      first == alignToInterval(safeStart + SNAP_INTERVAL_MS - 1)
      candles == { b \in AlignedIn(safeStart, safeEnd) :
                     /\ b <= alignToInterval(now)
                     /\ (b - first) \div SNAP_INTERVAL_MS < limit }
  IN IF ok THEN [ b \in candles |-> UpstreamClose(b) ] ELSE << >>

\* fetchOpenInterestSeries: the latest `limit` samples, kept when their
\* bucket lies in [startTime, endExclusive); an empty map on failure.
fetchOpenInterestSeries(ok, startTime, endExclusive, expectedBuckets) ==
  LET limit == Min(500, Max(expectedBuckets + 10, 20))
      newest == alignToInterval(now)
      kept == { b \in AlignedIn(Max(0, startTime), endExclusive) :
                  /\ b <= newest
                  /\ (newest - b) \div SNAP_INTERVAL_MS < limit }
  IN IF ok
       THEN [ b \in kept |-> [contracts |-> Some(UpstreamOi(b).contracts),
                              value |-> Some(UpstreamOi(b).value)] ]
       ELSE << >>

\* One page of /fapi/v1/aggTrades: the first `limit` trades with
\* startTime <= T <= endTime, oldest first.
TradePage(feed, startTime, endTime, limit) ==
  LET inRange == SelectSeq(feed, LAMBDA t : t.T >= startTime /\ t.T <= endTime)
  IN SubSeq(inRange, 1, Min(limit, Len(inRange)))

\* The for loop of fetchCvdDeltas over one page.
RECURSIVE FoldPage(_, _, _, _)
FoldPage(page, startTime, endExclusive, acc) ==
  IF page = << >> THEN acc
  ELSE LET trade == Head(page)
           skip == trade.T < startTime \/ trade.T >= endExclusive
           delta == IF trade.m THEN -trade.q ELSE trade.q
           bucketStart == alignToInterval(trade.T)
           prev == MapGet(acc.deltas, bucketStart, 0)
       IN FoldPage(Tail(page), startTime, endExclusive,
            IF skip THEN acc
            ELSE [ deltas |-> [ b \in DOMAIN acc.deltas \cup {bucketStart} |->
                                  IF b = bucketStart THEN prev + delta
                                  ELSE acc.deltas[b] ],
                   maxTimestamp |-> Max(acc.maxTimestamp, trade.T) ])

\* The cursor after a full page with the cursor allowed to stand still.
nextCursorNoProgress(page, pageCap, cursor, maxTimestamp) ==
  IF Len(page) < pageCap
    THEN maxTimestamp + 1
    ELSE Max(page[Len(page)].T + 1, cursor)

\* The cursor after a full page moved to the bucket after the last trade.
nextCursorNextBucket(page, pageCap, cursor, maxTimestamp) ==
  IF Len(page) < pageCap
    THEN maxTimestamp + 1
    ELSE alignToInterval(page[Len(page)].T) + SNAP_INTERVAL_MS

\* The cursor after a page that was not empty.
nextCursor(page, pageCap, cursor, maxTimestamp) ==
  IF Len(page) < pageCap
    THEN maxTimestamp + 1
    ELSE Max(page[Len(page)].T + 1, cursor + 1)

\* The while loop of fetchCvdDeltas.  failAt is the number of the request
\* that fails after its retries (0: none fails); pageCap is the page limit.
RECURSIVE fetchCvdDeltasLoop(_, _, _, _, _, _, _)
fetchCvdDeltasLoop(feed, failAt, pageCap, startTime, endExclusive, cursor, acc) ==
  IF cursor >= endExclusive THEN acc
  ELSE IF acc.requests + 1 = failAt THEN [acc EXCEPT !.requests = @ + 1]
  ELSE
    LET page == TradePage(feed, cursor, endExclusive - 1, pageCap)
        folded == FoldPage(page, startTime, endExclusive,
                           [deltas |-> acc.deltas, maxTimestamp |-> cursor])
        next == nextCursor(page, pageCap, cursor, folded.maxTimestamp)
    IN IF Len(page) = 0 THEN [acc EXCEPT !.requests = @ + 1]
       ELSE fetchCvdDeltasLoop(feed, failAt, pageCap, startTime, endExclusive, next,
              [deltas |-> folded.deltas, requests |-> acc.requests + 1])

fetchCvdDeltas(feed, failAt, startTime, endExclusive) ==
  fetchCvdDeltasLoop(feed, failAt, MAX_TRADES_PER_REQUEST, startTime, endExclusive,
                     startTime, [deltas |-> << >>, requests |-> 0])

\* ------------------------------------------------------------------------
\* The snapshot table cvd_data and the alert table
\* ------------------------------------------------------------------------
SameKey(a, b) == a.symbol = b.symbol /\ a.timestamp = b.timestamp

RowIdx(table, symbol) == { i \in DOMAIN table : table[i].symbol = symbol }

\* Newer(a, b): row a comes before row b in order by timestamp desc.
Newer(a, b) == a.timestamp > b.timestamp

InsertDesc(sorted, row) ==
  LET k == Cardinality({ i \in DOMAIN sorted : ~Newer(row, sorted[i]) })
  IN SubSeq(sorted, 1, k) \o << row >> \o SubSeq(sorted, k + 1, Len(sorted))

\* The first n physical rows: those of the symbol, newest first.
RECURSIVE SortDesc(_, _, _)
SortDesc(table, symbol, n) ==
  IF n = 0 THEN << >>
  ELSE IF table[n].symbol = symbol
    THEN InsertDesc(SortDesc(table, symbol, n - 1), table[n])
    ELSE SortDesc(table, symbol, n - 1)

\* select ... order by timestamp desc limit `limit`
RecentRows(table, symbol, limit) ==
  LET sorted == SortDesc(table, symbol, Len(table))
  IN SubSeq(sorted, 1, Min(limit, Len(sorted)))

RECURSIVE NewestIdx(_, _, _, _)
NewestIdx(table, symbol, n, best) ==
  IF n > Len(table) THEN best
  ELSE NewestIdx(table, symbol, n + 1,
         IF table[n].symbol = symbol
              /\ (best = 0 \/ ~Newer(table[best], table[n]))
           THEN n ELSE best)

\* select ... order by timestamp desc limit 1, maybeSingle
LatestRow(table, symbol) ==
  LET i == NewestIdx(table, symbol, 1, 0)
  IN IF i = 0 THEN None ELSE Some(table[i])

\* insert into cvd_data: a new physical row, whatever the key.
InsertRow(table, row) == Append(table, row)

\* upsert with onConflict (symbol, timestamp): the row holding the key is
\* replaced in place; a new key is appended.
UpsertRow(table, row) ==
  IF \E i \in DOMAIN table : SameKey(table[i], row)
    THEN [ i \in DOMAIN table |-> IF SameKey(table[i], row) THEN row ELSE table[i] ]
    ELSE Append(table, row)

RECURSIVE UpsertRows(_, _)
UpsertRows(table, rows) ==
  IF rows = << >> THEN table
  ELSE UpsertRows(UpsertRow(table, Head(rows)), Tail(rows))

\* The cooldown query of processCoin with the comparison reversed.
RecentAlertLte(table, symbol, alertType, since) ==
  \E i \in DOMAIN table :
    /\ table[i].symbol = symbol
    /\ table[i].alert_type = alertType
    /\ table[i].created_at <= since

\* select id from alerts where symbol, alert_type, created_at >= since limit 1
RecentAlert(table, symbol, alertType, since) ==
  \E i \in DOMAIN table :
    /\ table[i].symbol = symbol
    /\ table[i].alert_type = alertType
    /\ table[i].created_at >= since

\* ------------------------------------------------------------------------
\* processCoin: the bucket walk
\* ------------------------------------------------------------------------
\* startBucket computed from the latest row without stepping past it.
startBucketSameBucket(latestRow, currentBucket) ==
  IF latestRow # None
    THEN alignToInterval(Val(latestRow).timestamp)
    ELSE currentBucket - SNAP_INTERVAL_MS * (DEFAULT_BACKFILL_INTERVALS - 1)

\* startBucket with the cold start one interval further back.
startBucketFullLookBack(latestRow, currentBucket) ==
  IF latestRow # None
    THEN alignToInterval(Val(latestRow).timestamp) + SNAP_INTERVAL_MS
    ELSE currentBucket - SNAP_INTERVAL_MS * DEFAULT_BACKFILL_INTERVALS

startBucketOf(latestRow, currentBucket) ==
  IF latestRow # None
    THEN alignToInterval(Val(latestRow).timestamp) + SNAP_INTERVAL_MS
    ELSE currentBucket - SNAP_INTERVAL_MS * (DEFAULT_BACKFILL_INTERVALS - 1)

\* The price of a bucket without the fallback to the last price.
resolvePriceNoFallback(priceMap, bucketStart, lastPrice) ==
  IF bucketStart \in DOMAIN priceMap THEN Some(priceMap[bucketStart]) ELSE None

\* priceMap.get(bucketStart) ?? (Number.isFinite(lastPrice) ? lastPrice : undefined)
resolvePrice(priceMap, bucketStart, lastPrice) ==
  IF bucketStart \in DOMAIN priceMap THEN Some(priceMap[bucketStart]) ELSE lastPrice

\* The for loop over the buckets with a skipped bucket leaving runningCvd
\* as it was.
RECURSIVE BucketWalkDropsSkipped(_, _, _, _, _, _, _)
BucketWalkDropsSkipped(symbol, buckets, priceMap, oiMap, cvdDeltas, carry, rows) ==
  IF buckets = << >> THEN rows
  ELSE
    LET bucketStart == Head(buckets)
        price == resolvePrice(priceMap, bucketStart, carry.lastPrice)
        hasOi == bucketStart \in DOMAIN oiMap
        oiContracts == IF hasOi /\ oiMap[bucketStart].contracts # None
                         THEN oiMap[bucketStart].contracts ELSE carry.lastOiContracts
        oiValue == IF hasOi /\ oiMap[bucketStart].value # None
                     THEN oiMap[bucketStart].value ELSE carry.lastOiValue
        delta == MapGet(cvdDeltas, bucketStart, 0)
        nextCvd == carry.runningCvd + delta
    IN IF price = None
         THEN BucketWalkDropsSkipped(symbol, Tail(buckets), priceMap, oiMap, cvdDeltas,
                                     carry, rows)
         ELSE BucketWalkDropsSkipped(symbol, Tail(buckets), priceMap, oiMap, cvdDeltas,
                         [runningCvd |-> nextCvd,
                          lastPrice |-> price,
                          lastOiContracts |-> oiContracts,
                          lastOiValue |-> oiValue],
                         Append(rows, [symbol |-> symbol,
                                       timestamp |-> bucketStart,
                                       price |-> Val(price),
                                       cvd |-> nextCvd,
                                       open_interest |-> oiContracts,
                                       open_interest_value |-> oiValue]))

\* The for loop over the buckets: carry holds runningCvd, lastPrice,
\* lastOiContracts and lastOiValue; rows is rowsToUpsert.
RECURSIVE BucketWalk(_, _, _, _, _, _, _)
BucketWalk(symbol, buckets, priceMap, oiMap, cvdDeltas, carry, rows) ==
  IF buckets = << >> THEN rows
  ELSE
    LET bucketStart == Head(buckets)
        price == resolvePrice(priceMap, bucketStart, carry.lastPrice)
        hasOi == bucketStart \in DOMAIN oiMap
        oiContracts == IF hasOi /\ oiMap[bucketStart].contracts # None
                         THEN oiMap[bucketStart].contracts ELSE carry.lastOiContracts
        oiValue == IF hasOi /\ oiMap[bucketStart].value # None
                     THEN oiMap[bucketStart].value ELSE carry.lastOiValue
        delta == MapGet(cvdDeltas, bucketStart, 0)
        nextCvd == carry.runningCvd + delta
    IN IF price = None
         THEN BucketWalk(symbol, Tail(buckets), priceMap, oiMap, cvdDeltas,
                         [carry EXCEPT !.runningCvd = nextCvd], rows)
         ELSE BucketWalk(symbol, Tail(buckets), priceMap, oiMap, cvdDeltas,
                         [runningCvd |-> nextCvd,
                          lastPrice |-> price,
                          lastOiContracts |-> oiContracts,
                          lastOiValue |-> oiValue],
                         Append(rows, [symbol |-> symbol,
                                       timestamp |-> bucketStart,
                                       price |-> Val(price),
                                       cvd |-> nextCvd,
                                       open_interest |-> oiContracts,
                                       open_interest_value |-> oiValue]))

rowsToUpsertOf(symbol, latestRow, buckets, priceMap, oiMap, cvdDeltas) ==
  BucketWalk(symbol, buckets, priceMap, oiMap, cvdDeltas,
    [runningCvd |-> IF latestRow # None THEN toNumber(Val(latestRow).cvd) ELSE 0,
     lastPrice |-> IF latestRow # None THEN Some(toNumber(Val(latestRow).price)) ELSE None,
     lastOiContracts |-> IF latestRow # None THEN toNumber(Val(latestRow).open_interest) ELSE None,
     lastOiValue |-> IF latestRow # None THEN toNumber(Val(latestRow).open_interest_value) ELSE None],
    << >>)

\* ------------------------------------------------------------------------
\* determineAlert
\* ------------------------------------------------------------------------
NoAlert == [alertType |-> "NONE", priceChangePercent |-> PctZero,
            cvdChangePercent |-> PctZero, oiChangePercent |-> PctZero]

\* The reference taken to be the row after the latest.
referenceEntrySecond(typed) == typed[2]

\* typedRecentData.find((entry, index) => index > 0 && entry.timestamp <= ref)
referenceEntryOf(typed) ==
  LET referenceTimestamp == typed[1].timestamp - SNAP_INTERVAL_MS
      hits == { i \in 2..Len(typed) : typed[i].timestamp <= referenceTimestamp }
  IN IF hits # {}
       THEN typed[CHOOSE i \in hits : \A j \in hits : i <= j]
       ELSE typed[Len(typed)]

typedEntry(entry) ==
  [cvd |-> toNumber(Some(entry.cvd)),
   price |-> toNumber(Some(entry.price)),
   timestamp |-> entry.timestamp,
   openInterest |->
     IF entry.open_interest_value # None
       THEN toNumber(entry.open_interest_value)
       ELSE IF entry.open_interest # None
         THEN toNumber(entry.open_interest)
         ELSE None]

RECURSIVE typedRecentData(_)
typedRecentData(recentData) ==
  IF recentData = << >> THEN << >>
  ELSE << typedEntry(Head(recentData)) >> \o typedRecentData(Tail(recentData))

\* Math.max(...windowData.map(d => d.price)) and the same for cvd.
RECURSIVE MaxPriceOver(_, _, _)
MaxPriceOver(windowData, n, best) ==
  IF n > Len(windowData) THEN best
  ELSE MaxPriceOver(windowData, n + 1, Max(best, Val(windowData[n].price)))

RECURSIVE MaxCvdOver(_, _, _)
MaxCvdOver(windowData, n, best) ==
  IF n > Len(windowData) THEN best
  ELSE MaxCvdOver(windowData, n + 1, Max(best, Val(windowData[n].cvd)))

\* The CVD comparison of the window rule with the boundary included.
cvdBelowWindowMaxInclusive(cvd, maxCvd) == cvd * 100 <= maxCvd * 92

\* latestEntry.cvd < maxCvd * 0.92
cvdBelowWindowMax(cvd, maxCvd) == cvd * 100 < maxCvd * 92

\* The anomaly guard switched off.
anomalyGuardOff(priceChangePercent, cvdChangePercent) == FALSE

\* The anomaly guard: an implausible swing of CVD or price.
anomalyGuard(priceChangePercent, cvdChangePercent) ==
  PctGt(PctAbs(cvdChangePercent), 150) \/ PctGt(PctAbs(priceChangePercent), 50)

\* The rules with the window rule tested before the percentage rules.
classifyWindowFirst(typed, priceChangePercent, cvdChangePercent, oiChangePercent) ==
  LET result(t) == [alertType |-> t, priceChangePercent |-> priceChangePercent,
                    cvdChangePercent |-> cvdChangePercent,
                    oiChangePercent |-> oiChangePercent]
      windowData == SubSeq(typed, 1, TOP_DIVERGENCE_WINDOW)
      maxPrice == MaxPriceOver(windowData, 2, Val(windowData[1].price))
      maxCvd == MaxCvdOver(windowData, 2, Val(windowData[1].cvd))
  IN IF anomalyGuard(priceChangePercent, cvdChangePercent)
       THEN NoAlert
     ELSE IF /\ Len(typed) >= TOP_DIVERGENCE_WINDOW
             /\ Val(typed[1].price) * 1000 >= maxPrice * 999
             /\ cvdBelowWindowMax(Val(typed[1].cvd), maxCvd)
       THEN result("TOP_DIVERGENCE")
     ELSE IF PctGe(cvdChangePercent, 8) /\ PctGe(priceChangePercent, 3)
             /\ PctGe(oiChangePercent, 3)
       THEN result("STRONG_BREAKOUT")
     ELSE IF PctGe(cvdChangePercent, 12) /\ PctLe(PctAbs(priceChangePercent), 1)
             /\ PctGe(oiChangePercent, 0)
       THEN result("ACCUMULATION")
     ELSE IF PctLe(cvdChangePercent, -4) /\ PctGe(priceChangePercent, 1)
             /\ PctLe(oiChangePercent, 0)
       THEN result("DISTRIBUTION_WARN")
     ELSE IF PctLe(cvdChangePercent, -6) /\ PctLe(priceChangePercent, -2)
             /\ PctGe(oiChangePercent, 1)
       THEN result("SHORT_CONFIRM")
     ELSE result("NONE")

\* The rules of determineAlert, in their order.
classify(typed, priceChangePercent, cvdChangePercent, oiChangePercent) ==
  LET result(t) == [alertType |-> t, priceChangePercent |-> priceChangePercent,
                    cvdChangePercent |-> cvdChangePercent,
                    oiChangePercent |-> oiChangePercent]
      latestEntry == typed[1]
      windowData == SubSeq(typed, 1, TOP_DIVERGENCE_WINDOW)
      maxPrice == MaxPriceOver(windowData, 2, Val(windowData[1].price))
      maxCvd == MaxCvdOver(windowData, 2, Val(windowData[1].cvd))
  IN IF anomalyGuard(priceChangePercent, cvdChangePercent)
       THEN NoAlert
     ELSE IF PctGe(cvdChangePercent, 8) /\ PctGe(priceChangePercent, 3)
             /\ PctGe(oiChangePercent, 3)
       THEN result("STRONG_BREAKOUT")
     ELSE IF PctGe(cvdChangePercent, 12) /\ PctLe(PctAbs(priceChangePercent), 1)
             /\ PctGe(oiChangePercent, 0)
       THEN result("ACCUMULATION")
     ELSE IF PctLe(cvdChangePercent, -4) /\ PctGe(priceChangePercent, 1)
             /\ PctLe(oiChangePercent, 0)
       THEN result("DISTRIBUTION_WARN")
     ELSE IF PctLe(cvdChangePercent, -6) /\ PctLe(priceChangePercent, -2)
             /\ PctGe(oiChangePercent, 1)
       THEN result("SHORT_CONFIRM")
     ELSE IF /\ Len(typed) >= TOP_DIVERGENCE_WINDOW
             /\ Val(latestEntry.price) * 1000 >= maxPrice * 999
             /\ cvdBelowWindowMax(Val(latestEntry.cvd), maxCvd)
       THEN result("TOP_DIVERGENCE")
     ELSE result("NONE")

classifyAgainst(typed, referenceEntry) ==
  classify(typed,
           safePercentChange(typed[1].price, referenceEntry.price),
           safePercentChange(typed[1].cvd, referenceEntry.cvd),
           safePercentChange(typed[1].openInterest, referenceEntry.openInterest))

classifyTyped(typed) == classifyAgainst(typed, referenceEntryOf(typed))

\* recentData: the symbol's newest rows, newest first.
determineAlertOn(recentData) ==
  IF Len(recentData) < 2 THEN NoAlert
  ELSE classifyTyped(typedRecentData(recentData))

\* ------------------------------------------------------------------------
\* State of one invocation of processCoin
\* ------------------------------------------------------------------------
IdleRun ==
  [pc |-> "idle", symbol |-> SymGood, currentBucket |-> 0, latestRow |-> None,
   startBucket |-> 0, rows |-> << >>, latestSnapshot |-> None, latestDelta |-> 0, alertResult |-> NoAlert,
   fifteenMinutesAgo |-> 0, outcome |-> "pending",
   \* what the invocation has done so far
   requests |-> 0, upserted |-> FALSE, replaced |-> FALSE, classified |-> FALSE,
   inserted |-> FALSE, suppressed |-> FALSE, freshTrades |-> FALSE,
   \* what has failed under it: the store query that answered with an
   \* error ("none": none), and whether a series fetch failed
   storeError |-> "none", upstreamFailed |-> FALSE,
   \* the series whose request failed after its retries
   failedSeries |-> {}]

Settle(rec, outcome) == [rec EXCEPT !.pc = "done", !.outcome = outcome]

InitStore ==
  /\ now = T0 + StartOffsetMs
  /\ trades = << >>
  /\ klines = << BASE_PRICE >>
  /\ oiHist = << BaseOi >>
  /\ cvd_data = << >>
  /\ alerts = << >>
  /\ run = [ r \in Runners |-> IdleRun ]
  /\ seenTrades = 0
  /\ invocations = 0

\* ------------------------------------------------------------------------
\* The environment: clock and upstream provider
\* ------------------------------------------------------------------------
Changes(series, base) ==
  Cardinality({ i \in DOMAIN series :
                  series[i] # (IF i = 1 THEN base ELSE series[i - 1]) })

Tick ==
  /\ now + TickMs <= MaxNow
  /\ now' = now + TickMs
  /\ IF alignToInterval(now + TickMs) > alignToInterval(now)
       THEN /\ klines' = Append(klines, klines[Len(klines)])
            /\ oiHist' = Append(oiHist, oiHist[Len(oiHist)])
       ELSE UNCHANGED << klines, oiHist >>
  /\ UNCHANGED << trades, cvd_data, alerts, run, seenTrades, invocations, sched, fw, cls, whale, tg, reg, bf, pg, walk, pct >>

TradeArrives ==
  /\ Len(trades) < MaxTrades
  /\ \E q \in Quantities, m \in BOOLEAN :
       trades' = Append(trades, [T |-> now, q |-> q, m |-> m])
  /\ UNCHANGED << now, klines, oiHist, cvd_data, alerts, run, seenTrades, invocations, sched, fw, cls, whale, tg, reg, bf, pg, walk, pct >>

PriceMove ==
  /\ \E p \in Prices :
       /\ p # klines[Len(klines)]
       /\ klines' = [klines EXCEPT ![Len(klines)] = p]
  /\ Changes(klines', BASE_PRICE) <= MaxPriceMoves
  /\ UNCHANGED << now, trades, oiHist, cvd_data, alerts, run, seenTrades, invocations, sched, fw, cls, whale, tg, reg, bf, pg, walk, pct >>

OiMove ==
  /\ \E s \in OiSamples :
       /\ s # oiHist[Len(oiHist)]
       /\ oiHist' = [oiHist EXCEPT ![Len(oiHist)] = s]
  /\ Changes(oiHist', BaseOi) <= MaxOiMoves
  /\ UNCHANGED << now, trades, klines, cvd_data, alerts, run, seenTrades, invocations, sched, fw, cls, whale, tg, reg, bf, pg, walk, pct >>

\* ------------------------------------------------------------------------
\* processCoin, one action per await
\* ------------------------------------------------------------------------
\* Entry: the symbol pattern test, Date.now() and the current bucket.
Invoke(r) ==
  /\ run[r].pc \in {"idle", "done"}
  /\ invocations < MaxInvocations
  /\ \E symbol \in Symbols :
       run' = [run EXCEPT ![r] =
                 IF symbolPatternTest(symbol)
                   THEN [IdleRun EXCEPT !.pc = "readLatest", !.symbol = symbol,
                                        !.currentBucket = alignToInterval(now)]
                   ELSE Settle([IdleRun EXCEPT !.symbol = symbol], "rejected")]
  /\ invocations' = invocations + 1
  /\ UNCHANGED << now, trades, klines, oiHist, cvd_data, alerts, seenTrades, sched, fw, cls, whale, tg, reg, bf, pg, walk, pct >>

\* The latest-row query answered; start bucket and the early return.
ReadLatest(r) ==
  /\ run[r].pc = "readLatest"
  /\ LET latestRow == LatestRow(cvd_data, run[r].symbol)
         startBucket == startBucketOf(latestRow, run[r].currentBucket)
         rec == [run[r] EXCEPT !.latestRow = latestRow, !.startBucket = startBucket]
     IN run' = [run EXCEPT ![r] =
                  IF startBucket > run[r].currentBucket
                       \/ generateBuckets(startBucket, run[r].currentBucket) = << >>
                    THEN Settle(rec, "fulfilled")
                    ELSE [rec EXCEPT !.pc = "fetch"]]
  /\ UNCHANGED << now, trades, klines, oiHist, cvd_data, alerts, seenTrades, invocations, sched, fw, cls, whale, tg, reg, bf, pg, walk, pct >>

\* The latest-row query answered with an error.
ReadLatestFails(r) ==
  /\ run[r].pc = "readLatest"
  /\ run' = [run EXCEPT ![r] =
               Settle([run[r] EXCEPT !.storeError = "latestRow"], "rejected")]
  /\ UNCHANGED << now, trades, klines, oiHist, cvd_data, alerts, seenTrades, invocations, sched, fw, cls, whale, tg, reg, bf, pg, walk, pct >>

\* Promise.all of the three series fetches, then the bucket walk.  priceOk
\* and oiOk tell whether that series' request succeeds within its retries,
\* failAt which trade request does not (0: none).
FetchStep(r, priceOk, oiOk, failAt) ==
  /\ run[r].pc = "fetch"
  /\   LET buckets == generateBuckets(run[r].startBucket, run[r].currentBucket)
           rangeStart == buckets[1]
           rangeEndExclusive == buckets[Len(buckets)] + SNAP_INTERVAL_MS
           priceMap == fetchMarkPriceSeries(priceOk, rangeStart, rangeEndExclusive)
           oiMap == fetchOpenInterestSeries(oiOk, rangeStart, rangeEndExclusive, Len(buckets))
           cvd == fetchCvdDeltas(trades, failAt, rangeStart, rangeEndExclusive)
           rows == rowsToUpsertOf(run[r].symbol, run[r].latestRow, buckets,
                                  priceMap, oiMap, cvd.deltas)
           rec == [run[r] EXCEPT !.rows = rows,
                                 !.requests = 2 + cvd.requests,
                                 !.freshTrades = Len(trades) > seenTrades,
                                 !.upstreamFailed = ~(priceOk /\ oiOk /\ failAt = 0),
                                 !.failedSeries =
                                    (IF priceOk THEN {} ELSE { "price" })
                                      \cup (IF oiOk THEN {} ELSE { "oi" })
                                      \cup (IF failAt = 0 THEN {} ELSE { "trades" }),
                                 !.latestDelta =
                                    IF rows = << >> THEN 0
                                    ELSE MapGet(cvd.deltas, rows[Len(rows)].timestamp, 0)]
       IN run' = [run EXCEPT ![r] =
                    IF rows = << >> THEN Settle(rec, "fulfilled")
                    ELSE [rec EXCEPT !.pc = "upsert"]]
  /\ seenTrades' = Len(trades)
  /\ UNCHANGED << now, trades, klines, oiHist, cvd_data, alerts, invocations, sched, fw, cls, whale, tg, reg, bf, pg, walk, pct >>

\* Every series answers.
FetchSeries(r) == FetchStep(r, TRUE, TRUE, 0)

\* At least one series fails after its retries.
FetchSeriesDegraded(r) ==
  \E priceOk \in BOOLEAN, oiOk \in BOOLEAN, failAt \in 0..1 :
    /\ ~(priceOk /\ oiOk /\ failAt = 0)
    /\ FetchStep(r, priceOk, oiOk, failAt)

\* The upsert of rowsToUpsert.
UpsertSnapshots(r) ==
  /\ run[r].pc = "upsert"
  /\ cvd_data' = UpsertRows(cvd_data, run[r].rows)
  /\ run' = [run EXCEPT ![r].pc = "determineAlert", ![r].upserted = TRUE,
                        ![r].rows = << >>,
                        ![r].latestSnapshot = Some(run[r].rows[Len(run[r].rows)]),
                        ![r].replaced =
                           \E i \in DOMAIN cvd_data, j \in DOMAIN run[r].rows :
                             SameKey(cvd_data[i], run[r].rows[j])]
  /\ UNCHANGED << now, trades, klines, oiHist, alerts, seenTrades, invocations, sched, fw, cls, whale, tg, reg, bf, pg, walk, pct >>

\* The upsert answered with an error that is not looked at.
UpsertFailsIgnored(r) ==
  /\ run[r].pc = "upsert"
  /\ run' = [run EXCEPT ![r].pc = "determineAlert", ![r].storeError = "upsert",
                        ![r].rows = << >>,
                        ![r].latestSnapshot = Some(run[r].rows[Len(run[r].rows)])]
  /\ UNCHANGED << now, trades, klines, oiHist, cvd_data, alerts, seenTrades, invocations, sched, fw, cls, whale, tg, reg, bf, pg, walk, pct >>

\* The upsert answered with an error.
UpsertFails(r) ==
  /\ run[r].pc = "upsert"
  /\ run' = [run EXCEPT ![r] =
               Settle([run[r] EXCEPT !.rows = << >>, !.storeError = "upsert"],
                      "rejected")]
  /\ UNCHANGED << now, trades, klines, oiHist, cvd_data, alerts, seenTrades, invocations, sched, fw, cls, whale, tg, reg, bf, pg, walk, pct >>

\* Where processCoin goes with the result of determineAlert.
afterDetermineAlert(alertResult) ==
  IF alertResult.alertType # "NONE" THEN "cooldown" ELSE "done"

\* determineAlert: the recent-rows query and the classification.
DetermineAlert(r) ==
  /\ run[r].pc = "determineAlert"
  /\ LET alertResult == determineAlertOn(RecentRows(cvd_data, run[r].symbol, RECENT_LIMIT))
         rec == [run[r] EXCEPT !.alertResult = alertResult, !.classified = TRUE]
     IN run' = [run EXCEPT ![r] =
                  IF afterDetermineAlert(alertResult) = "cooldown"
                    THEN [rec EXCEPT !.pc = "cooldown"]
                    ELSE Settle(rec, "fulfilled")]
  /\ UNCHANGED << now, trades, klines, oiHist, cvd_data, alerts, seenTrades, invocations, sched, fw, cls, whale, tg, reg, bf, pg, walk, pct >>

\* The cooldown query over the last 15 minutes.
CooldownCheck(r) ==
  /\ run[r].pc = "cooldown"
  /\ LET fifteenMinutesAgo == now - COOLDOWN_MS
         rec == [run[r] EXCEPT !.fifteenMinutesAgo = fifteenMinutesAgo]
     IN run' = [run EXCEPT ![r] =
                  IF RecentAlert(alerts, run[r].symbol, run[r].alertResult.alertType,
                                 fifteenMinutesAgo)
                    THEN Settle([rec EXCEPT !.suppressed = TRUE], "fulfilled")
                    ELSE [rec EXCEPT !.pc = "insertAlert"]]
  /\ UNCHANGED << now, trades, klines, oiHist, cvd_data, alerts, seenTrades, invocations, sched, fw, cls, whale, tg, reg, bf, pg, walk, pct >>

\* The insert into alerts; created_at is the table's default now().
InsertAlert(r) ==
  /\ run[r].pc = "insertAlert"
  /\ LET latestSnapshot == Val(run[r].latestSnapshot)
     IN alerts' = Append(alerts,
          [symbol |-> run[r].symbol,
           alert_type |-> run[r].alertResult.alertType,
           price |-> latestSnapshot.price,
           cvd |-> latestSnapshot.cvd,
           cvd_change_percent |-> run[r].alertResult.cvdChangePercent,
           price_change_percent |-> run[r].alertResult.priceChangePercent,
           oi_change_percent |-> run[r].alertResult.oiChangePercent,
           snapshot_timestamp |-> latestSnapshot.timestamp,
           cvd_delta |-> run[r].latestDelta,
           created_at |-> now,
           telegram_sent |-> None])
  /\ run' = [run EXCEPT ![r] = Settle([run[r] EXCEPT !.inserted = TRUE], "fulfilled")]
  /\ UNCHANGED << now, trades, klines, oiHist, cvd_data, seenTrades, invocations, sched, fw, cls, whale, tg, reg, bf, pg, walk, pct >>

\* The recent-rows query of determineAlert answered with an error: data is
\* null and determineAlert returns NONE.
DetermineAlertFails(r) ==
  /\ run[r].pc = "determineAlert"
  /\ run' = [run EXCEPT ![r] =
               Settle([run[r] EXCEPT !.alertResult = NoAlert, !.classified = TRUE,
                                     !.storeError = "recentRows"], "fulfilled")]
  /\ UNCHANGED << now, trades, klines, oiHist, cvd_data, alerts, seenTrades, invocations, sched, fw, cls, whale, tg, reg, bf, pg, walk, pct >>

\* The cooldown query answered with an error: recentAlert is null.
CooldownCheckFails(r) ==
  /\ run[r].pc = "cooldown"
  /\ run' = [run EXCEPT ![r].pc = "insertAlert",
                        ![r].fifteenMinutesAgo = now - COOLDOWN_MS,
                        ![r].storeError = "cooldown"]
  /\ UNCHANGED << now, trades, klines, oiHist, cvd_data, alerts, seenTrades, invocations, sched, fw, cls, whale, tg, reg, bf, pg, walk, pct >>

\* The insert into alerts answered with an error, which is not looked at.
InsertAlertFails(r) ==
  /\ run[r].pc = "insertAlert"
  /\ run' = [run EXCEPT ![r] =
               Settle([run[r] EXCEPT !.storeError = "alertInsert"], "fulfilled")]
  /\ UNCHANGED << now, trades, klines, oiHist, cvd_data, alerts, seenTrades, invocations, sched, fw, cls, whale, tg, reg, bf, pg, walk, pct >>

Environment == Tick \/ TradeArrives

processCoin(r) ==
  \/ Invoke(r)
  \/ ReadLatest(r)
  \/ FetchSeries(r)
  \/ UpsertSnapshots(r)
  \/ DetermineAlert(r)
  \/ CooldownCheck(r)
  \/ InsertAlert(r)

\* The failure paths of processCoin.
processCoinFaults(r) ==
  \/ ReadLatestFails(r)
  \/ FetchSeriesDegraded(r)
  \/ UpsertFails(r)
  \/ DetermineAlertFails(r)
  \/ CooldownCheckFails(r)
  \/ InsertAlertFails(r)

\* ------------------------------------------------------------------------
\* serve: the batch scheduler over the enabled symbols
\* ------------------------------------------------------------------------
\* What may go wrong in one pipeline, and how processCoin settles then.
\* Only the symbol test, the latest-row query and the upsert raise; a series
\* that failed upstream and an alert-store error are logged and swallowed.
PipelineFates ==
  { "none", "invalidSymbol", "latestRowError", "upsertError",
    "seriesFailed", "alertStoreError" }

processCoinOutcome(fate) ==
  IF fate \in { "invalidSymbol", "latestRowError", "upsertError" }
    THEN "rejected"
    ELSE "fulfilled"

\* monitoredCoins.slice(i, i + BATCH_SIZE), as 1-based positions.
BatchOfShort(i, n) == (i + 1)..Min(i + BATCH_SIZE - 1, n)
BatchOf(i, n) == (i + 1)..Min(i + BATCH_SIZE, n)

\* Promise.allSettled resolves when every promise of the batch has settled.
AnySettled(s) == s.batchResults # << >> \/ s.inflight = {}
AllSettled(s) == s.inflight = {}

\* The condition of the inter-batch delay.
MoreBatchesAlways(i, n) == i < n
MoreBatches(i, n) == i + BATCH_SIZE < n

CountOf(results, status) ==
  Cardinality({ k \in DOMAIN results : results[k] = status })

IdleSched ==
  [pc |-> "idle", n |-> 0, i |-> 0,
   inflight |-> {},          \* pipelines started and not yet settled
   batchResults |-> << >>,   \* position -> outcome, current batch
   results |-> << >>,
   starts |-> << >>,         \* per position: calls of processCoin
   batches |-> << >>,        \* the batches started, as sets of positions
   delays |-> 0,             \* inter-batch delays slept
   response |-> None]

\* The request arrives and the registry query answers with n enabled rows.
ServeRequest ==
  /\ sched.pc = "idle"
  /\ \E n \in 0..MaxCoins :
       sched' =
         IF n = 0
           THEN [IdleSched EXCEPT !.pc = "done",
                   !.response = Some([success |-> TRUE, processed |-> Some(0),
                                      successful |-> None, failed |-> None])]
           ELSE [IdleSched EXCEPT !.pc = "loop", !.n = n,
                                  !.starts = [c \in 1..n |-> 0]]
  /\ UNCHANGED << storeVars, fw, cls, whale, tg, reg, bf, pg, walk, pct >>

\* The registry query answers with an error: the handler's catch responds.
ServeRegistryFails ==
  /\ sched.pc = "idle"
  /\ sched' = [IdleSched EXCEPT !.pc = "done",
                 !.response = Some([success |-> FALSE, processed |-> None,
                                    successful |-> None, failed |-> None])]
  /\ UNCHANGED << storeVars, fw, cls, whale, tg, reg, bf, pg, walk, pct >>

\* One turn of the loop: processCoin is called for every coin of the slice.
StartBatch ==
  /\ sched.pc = "loop"
  /\ sched.i < sched.n
  /\ LET batch == BatchOf(sched.i, sched.n)
     IN sched' = [sched EXCEPT
                    !.pc = "awaiting",
                    !.inflight = sched.inflight \cup batch,
                    !.batchResults = << >>,
                    !.starts = [c \in DOMAIN sched.starts |->
                                  IF c \in batch THEN sched.starts[c] + 1
                                  ELSE sched.starts[c]],
                    !.batches = Append(sched.batches, batch)]
  /\ UNCHANGED << storeVars, fw, cls, whale, tg, reg, bf, pg, walk, pct >>

\* The pipeline of one coin settles.
PipelineSettles(c) ==
  /\ c \in sched.inflight
  /\ \E fate \in PipelineFates :
       sched' = [sched EXCEPT
                   !.inflight = sched.inflight \ {c},
                   !.batchResults =
                      [k \in DOMAIN sched.batchResults \cup {c} |->
                         IF k = c THEN processCoinOutcome(fate)
                         ELSE sched.batchResults[k]]]
  /\ UNCHANGED << storeVars, fw, cls, whale, tg, reg, bf, pg, walk, pct >>

\* await Promise.allSettled resumes; results.push; delay or next turn.
RECURSIVE InOrder(_, _)
InOrder(f, keys) ==
  IF keys = {} THEN << >>
  ELSE LET k == CHOOSE x \in keys : \A y \in keys : x <= y
       IN << f[k] >> \o InOrder(f, keys \ {k})

BatchSettled ==
  /\ sched.pc = "awaiting"
  /\ AllSettled(sched)
  /\ LET pushed == sched.results \o InOrder(sched.batchResults, DOMAIN sched.batchResults)
     IN sched' =
          IF MoreBatches(sched.i, sched.n)
            THEN [sched EXCEPT !.pc = "delay", !.results = pushed]
            ELSE [sched EXCEPT !.pc = "loop", !.results = pushed,
                               !.i = sched.i + BATCH_SIZE]
  /\ UNCHANGED << storeVars, fw, cls, whale, tg, reg, bf, pg, walk, pct >>

\* The 1200 ms timer fires.
BatchDelay ==
  /\ sched.pc = "delay"
  /\ sched' = [sched EXCEPT !.pc = "loop", !.delays = sched.delays + 1,
                            !.i = sched.i + BATCH_SIZE]
  /\ UNCHANGED << storeVars, fw, cls, whale, tg, reg, bf, pg, walk, pct >>

\* After the loop: the counts and the response.
ServeRespond ==
  /\ sched.pc = "loop"
  /\ sched.i >= sched.n
  /\ sched' = [sched EXCEPT !.pc = "done",
                 !.response =
                    Some([success |-> TRUE,
                          processed |-> Some(sched.n),
                          successful |-> Some(CountOf(sched.results, "fulfilled")),
                          failed |-> Some(CountOf(sched.results, "rejected"))])]
  /\ UNCHANGED << storeVars, fw, cls, whale, tg, reg, bf, pg, walk, pct >>

serve ==
  \/ ServeRequest
  \/ ServeRegistryFails
  \/ StartBatch
  \/ \E c \in 1..MaxCoins : PipelineSettles(c)
  \/ BatchSettled
  \/ BatchDelay
  \/ ServeRespond

\* ------------------------------------------------------------------------
\* fetchWithRetry
\* ------------------------------------------------------------------------
\* What one fetch() may produce: an HTTP status, or 0 for a transport
\* failure (fetch itself throws).
TRANSPORT_ERROR == 0
Responses == { 200, 404, 429, 500, TRANSPORT_ERROR }
JitterSamples == { 0, 199 }     \* Math.floor(Math.random() * 200)
RetryArgs == { 0, RETRIES_DEFAULT }

ResponseOk(status) == status >= 200 /\ status <= 299
RetryableStatus(status) == status = 418 \/ status = 429 \/ status >= 500

\* The retries left after one backoff.
RetriesKept(retries) == retries
RetriesAfter(retries) == retries - 1

BASE_DELAY_DEFAULT == 600

IdleFw ==
  [pc |-> "idle", retries0 |-> 0, retries |-> 0, attempt |-> 0,
   baseDelay |-> 0,
   statuses |-> << >>,   \* what each fetch() of this call produced
   sleeps |-> << >>,     \* per backoff: how many fetches preceded it
   delay |-> 0]          \* the backoff being slept, ms

\* A caller enters fetchWithRetry(url, options, retries, baseDelay).
FwCall ==
  /\ fw.pc \in { "idle", "returned", "raised" }
  /\ \E retries \in RetryArgs :
       fw' = [IdleFw EXCEPT !.pc = "fetch", !.retries0 = retries,
                            !.retries = retries, !.baseDelay = BASE_DELAY_DEFAULT]
  /\ UNCHANGED << storeVars, sched, cls, whale, tg, reg, bf, pg, walk, pct >>

\* One await fetch(url) and what follows up to the next await.
FwAttempt ==
  /\ fw.pc = "fetch"
  /\ \E status \in Responses, jitter \in JitterSamples :
       LET seen == [fw EXCEPT !.statuses = Append(fw.statuses, status)]
           delay == fw.baseDelay * (2 ^ fw.attempt) + jitter
           backoff == [seen EXCEPT !.pc = "sleep", !.delay = delay,
                                   !.sleeps = Append(fw.sleeps, Len(seen.statuses))]
       IN fw' =
            IF status # TRANSPORT_ERROR /\ ResponseOk(status)
              THEN [seen EXCEPT !.pc = "returned"]
            ELSE IF status # TRANSPORT_ERROR /\ RetryableStatus(status) /\ fw.retries > 0
              THEN backoff
            \* throw new Error(`HTTP ${res.status}`) inside the try, or fetch
            \* threw: the catch clause of the same try handles both
            ELSE IF fw.retries <= 0
              THEN [seen EXCEPT !.pc = "raised"]
              ELSE backoff
  /\ UNCHANGED << storeVars, sched, cls, whale, tg, reg, bf, pg, walk, pct >>

\* The backoff timer fires: retries--, attempt++ and the next turn of the loop.
FwWake ==
  /\ fw.pc = "sleep"
  /\ fw' = [fw EXCEPT !.pc = "fetch", !.retries = RetriesAfter(fw.retries),
                      !.attempt = fw.attempt + 1, !.delay = 0]
  /\ UNCHANGED << storeVars, sched, cls, whale, tg, reg, bf, pg, walk, pct >>

fetchWithRetry == FwCall \/ FwAttempt \/ FwWake

\* ------------------------------------------------------------------------
\* determineAlert on given rows
\* ------------------------------------------------------------------------
\* The rows the recent-rows query may answer with, newest first: a latest
\* row, the row one interval before it, and older rows that are all alike.
ClsLengths == { 0, 1, 2, TOP_DIVERGENCE_WINDOW }
LatestPrices == { 97, 98, 100, 101, 103, 151 }
LatestCvds == { -60, 92, 94, 96, 100, 108, 112, 251 }
LatestOis == { None, Some(97), Some(100), Some(101), Some(103) }
RefCvds == { -100, 0, 100 }
OlderPrices == { 100, 200 }
OlderCvds == { 100, 300 }

SampleRow(k, price, cvd, oiValue) ==
  [symbol |-> SymGood,
   timestamp |-> T0 - (k - 1) * SNAP_INTERVAL_MS,
   price |-> price,
   cvd |-> cvd,
   open_interest |-> None,
   open_interest_value |-> oiValue]

SampleRows(len, latestPrice, latestCvd, latestOi, refCvd, olderPrice, olderCvd) ==
  [ k \in 1..len |->
      IF k = 1 THEN SampleRow(k, latestPrice, latestCvd, latestOi)
      ELSE IF k = 2 THEN SampleRow(k, 100, refCvd, Some(100))
      ELSE SampleRow(k, olderPrice, olderCvd, Some(100)) ]

IdleCls == [pc |-> "idle", recentData |-> << >>, alertResult |-> NoAlert, next |-> "done"]

\* determineAlert is called on rows of the store, and processCoin branches
\* on its result.
Classify ==
  \E len \in ClsLengths, latestPrice \in LatestPrices, latestCvd \in LatestCvds,
     latestOi \in LatestOis, refCvd \in RefCvds,
     olderPrice \in OlderPrices, olderCvd \in OlderCvds :
    LET recentData == SampleRows(len, latestPrice, latestCvd, latestOi, refCvd,
                                 olderPrice, olderCvd)
        alertResult == determineAlertOn(recentData)
    IN /\ cls.pc = "idle"
       /\ cls' = [pc |-> "classified", recentData |-> recentData,
                  alertResult |-> alertResult,
                  next |-> afterDetermineAlert(alertResult)]
       /\ UNCHANGED << storeVars, sched, fw, whale, tg, reg, bf, pg, walk, pct >>

\* Full windows near the top of the price range, prices in hundredths: the
\* latest row, the reference row at the maximum price, one row holding the
\* CVD largest in size and the other rows below it in size.
TopLatestPrices == { 9989, 9990, 9995 }
TopLatestCvds == { 90, 92, 96, 97 }
TopRefCvds == { 95, 100 }
TopMaxCvds == { 100, 105 }
TopMaxAts == { 3, TOP_DIVERGENCE_WINDOW }
\* The CVD of every row of the window has the same sign.
TopCvdSigns == { 1, -1 }

WindowRows(latestPrice, latestCvd, refCvd, maxCvd, maxAt, otherCvd) ==
  [ k \in 1..TOP_DIVERGENCE_WINDOW |->
      IF k = 1 THEN SampleRow(k, latestPrice, latestCvd, Some(100))
      ELSE IF k = 2 THEN SampleRow(k, 10000, refCvd, Some(100))
      ELSE IF k = maxAt THEN SampleRow(k, 9990, maxCvd, Some(100))
      ELSE SampleRow(k, 9990, otherCvd, Some(100)) ]

\* determineAlert is called on a full window of rows.
ClassifyWindow ==
  \E latestPrice \in TopLatestPrices, latestCvd \in TopLatestCvds,
     refCvd \in TopRefCvds, maxCvd \in TopMaxCvds, maxAt \in TopMaxAts,
     sign \in TopCvdSigns :
    LET recentData == WindowRows(latestPrice, sign * latestCvd, sign * refCvd,
                                 sign * maxCvd, maxAt, sign * 95)
        alertResult == determineAlertOn(recentData)
    IN /\ cls.pc = "idle"
       /\ cls' = [pc |-> "classified", recentData |-> recentData,
                  alertResult |-> alertResult,
                  next |-> afterDetermineAlert(alertResult)]
       /\ UNCHANGED << storeVars, sched, fw, whale, tg, reg, bf, pg, walk, pct >>

\* Rows with timestamps off the five-minute grid, as the history backfill
\* writes them: the latest row and one row for each of some ages.
RowAges == { 60000, SNAP_INTERVAL_MS - 1, SNAP_INTERVAL_MS, 2 * SNAP_INTERVAL_MS }
AgeRank(age) == Cardinality({ a \in RowAges : a <= age })

RECURSIVE AgedRows(_)
AgedRows(ages) ==
  IF ages = {} THEN << >>
  ELSE LET age == CHOOSE a \in ages : \A b \in ages : a <= b
       IN << [symbol |-> SymGood,
              timestamp |-> T0 - age,
              price |-> 100 + AgeRank(age),
              cvd |-> 100 + 4 * AgeRank(age),
              open_interest |-> None,
              open_interest_value |-> Some(100)] >> \o AgedRows(ages \ { age })

\* determineAlert is called on rows off the grid.
ClassifyOffGrid ==
  \E ages \in SUBSET RowAges, latestCvd \in { 100, 108 } :
    LET recentData == << SampleRow(1, 100, latestCvd, Some(100)) >> \o AgedRows(ages)
        alertResult == determineAlertOn(recentData)
    IN /\ cls.pc = "idle"
       /\ ages # {}
       /\ cls' = [pc |-> "classified", recentData |-> recentData,
                  alertResult |-> alertResult,
                  next |-> afterDetermineAlert(alertResult)]
       /\ UNCHANGED << storeVars, sched, fw, whale, tg, reg, bf, pg, walk, pct >>

\* ------------------------------------------------------------------------
\* detectWhaleSignal
\* ------------------------------------------------------------------------
\* A number of the program as the fraction n/d with d >= 0: d = 0 stands
\* for what a division by zero gives, Infinity (n > 0), -Infinity (n < 0)
\* and NaN (n = 0).
NaN == [n |-> 0, d |-> 0]
XInt(k) == [n |-> k, d |-> 1]
XDiv(n, d) == IF d < 0 THEN [n |-> -n, d |-> -d] ELSE [n |-> n, d |-> d]
XIsNaN(x) == x.d = 0 /\ x.n = 0
Sgn(n) == IF n > 0 THEN 1 ELSE IF n < 0 THEN -1 ELSE 0
XNeg(x) == [n |-> -x.n, d |-> x.d]
XAbs(x) == [n |-> Abs(x.n), d |-> x.d]
\* x * kn / kd for kn, kd > 0
XScale(x, kn, kd) == [n |-> x.n * kn, d |-> x.d * kd]
XAdd(x, y) ==
  IF XIsNaN(x) \/ XIsNaN(y) THEN NaN
  ELSE IF x.d = 0 /\ y.d = 0 THEN (IF Sgn(x.n) = Sgn(y.n) THEN x ELSE NaN)
  ELSE IF x.d = 0 THEN x
  ELSE IF y.d = 0 THEN y
  ELSE [n |-> x.n * y.d + y.n * x.d, d |-> x.d * y.d]
XSub(x, y) == XAdd(x, XNeg(y))
\* x <= y; false when either is NaN
XLe(x, y) ==
  /\ ~XIsNaN(x)
  /\ ~XIsNaN(y)
  /\ IF x.d = 0 /\ y.d = 0 THEN Sgn(x.n) <= Sgn(y.n)
     ELSE x.n * y.d <= y.n * x.d
XGe(x, y) == XLe(y, x)
XGt(x, y) == ~XIsNaN(x) /\ ~XIsNaN(y) /\ ~XLe(x, y)
\* Math.min and Math.max
XMin(x, y) == IF XIsNaN(x) \/ XIsNaN(y) THEN NaN ELSE IF XLe(x, y) THEN x ELSE y
XMax(x, y) == IF XIsNaN(x) \/ XIsNaN(y) THEN NaN ELSE IF XLe(x, y) THEN y ELSE x

\* The last line of calculateConfidence without its clamp.
clampConfidenceOff(confidence) == confidence

\* Math.min(Math.max(confidence, 0), 100)
clampConfidence(confidence) == XMin(XMax(confidence, XInt(0)), XInt(100))

calculateConfidence(oiChange, priceChange, oiVolumeRatio, signalType) ==
  LET base == XInt(50)
  IN clampConfidence(
       IF signalType = "buy"
         THEN XAdd(XAdd(XAdd(base,
                XMin(XSub(XAbs(oiChange), XInt(20)), XInt(30))),
                XMax(XSub(XInt(10), XScale(XAbs(priceChange), 5, 1)), XInt(0))),
                XMin(XScale(XSub(oiVolumeRatio, XDiv(1, 4)), 20, 1), XInt(10)))
       ELSE IF signalType = "sell"
         THEN LET divergence == XSub(XAbs(oiChange), XAbs(priceChange))
              IN XAdd(XAdd(base,
                   XMin(XSub(XAbs(oiChange), XInt(15)), XInt(25))),
                   XMin(divergence, XInt(15)))
       ELSE IF signalType = "wash"
         THEN XAdd(XInt(70), XMin(XScale(XAbs(oiChange), 1, 2), XInt(15)))
       ELSE base)

\* OI notional is counted in units of 100,000 USDT, so that
\* latest.sumOpenInterestValue / 1_000_000 is v / 10.
oiValueInMillionsOf(oiHistory) == XDiv(oiHistory[1], 10)

\* ((a - b) / b) * 100
oiChangeBetween(a, b) == XDiv((a - b) * 100, b)

oiChange5mOf(oiHistory) == oiChangeBetween(oiHistory[1], oiHistory[2])

oiVolumeRatioOf(oiHistory, volume24h) ==
  IF volume24h > 0 THEN XDiv(Abs(oiHistory[1] - oiHistory[2]), volume24h) ELSE XInt(0)

\* A. accumulation
whaleBuyRule(oiHistory, priceChange5m, volume24h) ==
  /\ XGe(oiChange5mOf(oiHistory), XInt(20))
  /\ XLe(XAbs(priceChange5m), XDiv(15, 10))
  /\ XGe(oiVolumeRatioOf(oiHistory, volume24h), XDiv(25, 100))
  /\ XGe(oiValueInMillionsOf(oiHistory), XDiv(3, 10))

\* B. distribution
whaleSellRule(oiHistory, priceChange5m, volume24h) ==
  /\ XLe(oiChange5mOf(oiHistory), XInt(-15))
  /\ XGt(priceChange5m, XScale(oiChange5mOf(oiHistory), 1, 2))
  /\ XGe(oiValueInMillionsOf(oiHistory), XDiv(3, 10))

\* C. wash pattern
washTradingRule(oiHistory, priceChange5m, volume24h) ==
  /\ Len(oiHistory) >= 3
  /\ LET oiChange10m == oiChangeBetween(oiHistory[1], oiHistory[3])
         oiChangeFirst5m == oiChangeBetween(oiHistory[2], oiHistory[3])
         oiChangeSecond5m == oiChangeBetween(oiHistory[1], oiHistory[2])
     IN /\ XGe(oiChangeFirst5m, XInt(20))
        /\ XLe(oiChangeSecond5m, XInt(-15))
        /\ XLe(XAbs(oiChange10m), XInt(3))
        /\ XLe(XAbs(priceChange5m), XInt(2))
        /\ XGe(oiValueInMillionsOf(oiHistory), XDiv(3, 10))

WhaleSignal(type, confidence, oiHistory, priceChange5m, volume24h) ==
  Some([type |-> type,
        confidence |-> confidence,
        oiChange |-> oiChange5mOf(oiHistory),
        priceChange |-> priceChange5m,
        oiVolumeRatio |-> oiVolumeRatioOf(oiHistory, volume24h)])

\* oiHistory: OI notional, newest first; None is undefined.
detectWhaleSignal(oiHistory, priceChange5m, volume24h) ==
  IF Len(oiHistory) < 2 THEN None
  ELSE LET oiChange5m == oiChange5mOf(oiHistory)
           oiVolumeRatio == oiVolumeRatioOf(oiHistory, volume24h)
       IN IF whaleBuyRule(oiHistory, priceChange5m, volume24h)
            THEN WhaleSignal("WHALE_BUY",
                   calculateConfidence(oiChange5m, priceChange5m, oiVolumeRatio, "buy"),
                   oiHistory, priceChange5m, volume24h)
          ELSE IF whaleSellRule(oiHistory, priceChange5m, volume24h)
            THEN WhaleSignal("WHALE_SELL",
                   calculateConfidence(oiChange5m, priceChange5m, oiVolumeRatio, "sell"),
                   oiHistory, priceChange5m, volume24h)
          ELSE IF washTradingRule(oiHistory, priceChange5m, volume24h)
            THEN WhaleSignal("WASH_TRADING",
                   calculateConfidence(oiChangeBetween(oiHistory[2], oiHistory[3]),
                                       priceChange5m, oiVolumeRatio, "wash"),
                   oiHistory, priceChange5m, volume24h)
          ELSE None

\* Inputs: OI notional in units of 100,000 USDT, the 5-minute price change
\* in tenths of a percent, the 24h volume in units of 100,000 USDT.
OiValues == { 0, 2, 3, 85, 100, 120, 150 }
PriceTenths == { -100, -75, -20, 0, 15, 16, 20, 21, 1000 }
Volumes == { 0, 10, 80, 100 }
OiHistories == UNION { [1..n -> OiValues] : n \in 0..MaxHistory }

IdleWhale == [pc |-> "idle", oiHistory |-> << >>, priceTenths |-> 0,
              volume24h |-> 0, signal |-> None]

DetectWhaleSignal ==
  \E oiHistory \in OiHistories, priceTenths \in PriceTenths, volume24h \in Volumes :
    /\ whale.pc = "idle"
    /\ whale' = [pc |-> "returned", oiHistory |-> oiHistory,
                 priceTenths |-> priceTenths, volume24h |-> volume24h,
                 signal |-> detectWhaleSignal(oiHistory, XDiv(priceTenths, 10), volume24h)]
    /\ UNCHANGED << storeVars, sched, fw, cls, tg, reg, bf, pg, walk, pct >>

\* ------------------------------------------------------------------------
\* telegram-alert: the notification dispatcher
\* ------------------------------------------------------------------------
\* The alerts table as the dispatcher sees it: ids in the order of
\* created_at, telegram_sent null (FALSE) or true.  delivered counts the
\* messages Telegram accepted for an alert.
AlertIds == 1..MaxAlerts

IdleTg ==
  [pc |-> "idle",
   telegram_sent |-> [a \in AlertIds |-> FALSE],
   delivered |-> [a \in AlertIds |-> 0],
   alerts |-> << >>,
   subscribers |-> 0,
   i |-> 0,
   j |-> 0,
   sentCount |-> 0,
   dispatches |-> 0]

\* .is('telegram_sent', null).order('created_at').limit(BATCH_LIMIT)
unsentAlerts(telegram_sent) ==
  LET unsent == SelectSeq([a \in AlertIds |-> a], LAMBDA a : ~telegram_sent[a])
  IN SubSeq(unsent, 1, Min(Len(unsent), BATCH_LIMIT))

\* A request: the unsent alerts and the subscribers are read.  Without
\* alerts the response follows at once; without subscribers (or when their
\* query answers with an error, data being null) every alert of the batch is
\* flagged and the response follows.
TgRequest ==
  \E subscribers \in 0..MaxSubscribers :
    LET batch == unsentAlerts(tg.telegram_sent)
    IN /\ tg.pc = "idle"
       /\ tg.dispatches < MaxDispatches
       /\ tg' =
            IF batch = << >>
              THEN [tg EXCEPT !.dispatches = @ + 1, !.alerts = << >>]
            ELSE IF subscribers = 0
              THEN [tg EXCEPT !.dispatches = @ + 1, !.alerts = batch,
                              !.subscribers = 0,
                              !.telegram_sent =
                                [a \in AlertIds |->
                                   IF \E k \in 1..Len(batch) : batch[k] = a
                                     THEN TRUE ELSE @[a]]]
            ELSE [tg EXCEPT !.dispatches = @ + 1, !.alerts = batch,
                            !.subscribers = subscribers,
                            !.pc = "send", !.i = 1, !.j = 1, !.sentCount = 0]
       /\ UNCHANGED << storeVars, sched, fw, cls, whale, reg, bf, pg, walk, pct >>

\* The alerts query answers with an error: thrown, caught, status 500.
TgAlertsQueryFails ==
  /\ tg.pc = "idle"
  /\ tg.dispatches < MaxDispatches
  /\ tg' = [tg EXCEPT !.dispatches = @ + 1]
  /\ UNCHANGED << storeVars, sched, fw, cls, whale, reg, bf, pg, walk, pct >>

\* sendTelegramMessage of alert i to subscriber j: accepted, or it throws
\* and the error is logged.
TgSend ==
  \E ok \in BOOLEAN :
    /\ tg.pc = "send"
    /\ tg' = [tg EXCEPT
                !.delivered[tg.alerts[tg.i]] = IF ok THEN @ + 1 ELSE @,
                !.sentCount = IF ok THEN @ + 1 ELSE @,
                !.j = IF tg.j < tg.subscribers THEN @ + 1 ELSE @,
                !.pc = IF tg.j < tg.subscribers THEN "send" ELSE "mark"]
    /\ UNCHANGED << storeVars, sched, fw, cls, whale, reg, bf, pg, walk, pct >>

\* After the subscribers' loop alert i is flagged; the loop goes on with
\* the next alert or the response is sent.
TgMark ==
  /\ tg.pc = "mark"
  /\ tg' = [tg EXCEPT
              !.telegram_sent[tg.alerts[tg.i]] = TRUE,
              !.i = IF tg.i < Len(tg.alerts) THEN @ + 1 ELSE @,
              !.j = 1,
              !.pc = IF tg.i < Len(tg.alerts) THEN "send" ELSE "idle"]
  /\ UNCHANGED << storeVars, sched, fw, cls, whale, reg, bf, pg, walk, pct >>

\* The update answers with an error, which is not looked at.
TgMarkFails ==
  /\ tg.pc = "mark"
  /\ tg' = [tg EXCEPT
              !.i = IF tg.i < Len(tg.alerts) THEN @ + 1 ELSE @,
              !.j = 1,
              !.pc = IF tg.i < Len(tg.alerts) THEN "send" ELSE "idle"]
  /\ UNCHANGED << storeVars, sched, fw, cls, whale, reg, bf, pg, walk, pct >>

telegramAlert == TgRequest \/ TgAlertsQueryFails \/ TgSend \/ TgMark \/ TgMarkFails

\* ------------------------------------------------------------------------
\* The symbol registry monitored_coins in a collection run
\* ------------------------------------------------------------------------
RegSymbols == { "AUSDT", "BUSDT", "CUSDT" }

\* One symbol enabled, one disabled by hand, one not in the table.
InitialRegistry ==
  [s \in RegSymbols |->
     IF s = "AUSDT" THEN "enabled" ELSE IF s = "BUSDT" THEN "disabled" ELSE "absent"]

IdleReg ==
  [pc |-> "idle",
   monitored_coins |-> InitialRegistry,
   before |-> InitialRegistry,
   monitoredCoins |-> {},
   runs |-> 0]

\* syncBinancePerpetualMarkets on the markets the exchange lists as
\* TRADING: every one of them is upserted with enabled = true, and with
\* disableMissing every enabled row that is not among them is disabled.
syncBinancePerpetualMarkets(rows, tradingMarkets, disableMissing) ==
  [s \in RegSymbols |->
     IF s \in tradingMarkets THEN "enabled"
     ELSE IF disableMissing /\ rows[s] = "enabled" THEN "disabled"
     ELSE rows[s]]

\* A run of serve begins; before is the registry at that moment.
RunStart ==
  /\ reg.pc = "idle"
  /\ reg.runs < MaxRuns
  /\ reg' = [reg EXCEPT !.pc = "sync", !.before = reg.monitored_coins,
                        !.monitoredCoins = {}]
  /\ UNCHANGED << storeVars, sched, fw, cls, whale, tg, bf, pg, walk, pct >>

\* The sync that serve calls first, with disableMissing: true.
SyncMarkets ==
  \E tradingMarkets \in SUBSET RegSymbols :
    /\ reg.pc = "sync"
    /\ reg' = [reg EXCEPT
                 !.pc = "read",
                 !.monitored_coins =
                    syncBinancePerpetualMarkets(reg.monitored_coins, tradingMarkets, TRUE)]
    /\ UNCHANGED << storeVars, sched, fw, cls, whale, tg, bf, pg, walk, pct >>

\* The exchange info cannot be fetched or the table cannot be read: the
\* sync throws before it writes, and serve logs the error and goes on.
SyncFails ==
  /\ reg.pc = "sync"
  /\ reg' = [reg EXCEPT !.pc = "read"]
  /\ UNCHANGED << storeVars, sched, fw, cls, whale, tg, bf, pg, walk, pct >>

\* The enabled rows are read; they are the symbols of the run.
ReadRegistry ==
  /\ reg.pc = "read"
  /\ reg' = [reg EXCEPT
               !.pc = "process",
               !.monitoredCoins = { s \in RegSymbols : reg.monitored_coins[s] = "enabled" }]
  /\ UNCHANGED << storeVars, sched, fw, cls, whale, tg, bf, pg, walk, pct >>

\* The symbols are processed and the response is sent.
RunEnd ==
  /\ reg.pc = "process"
  /\ reg' = [reg EXCEPT !.pc = "idle", !.runs = @ + 1]
  /\ UNCHANGED << storeVars, sched, fw, cls, whale, tg, bf, pg, walk, pct >>

collectionRun == RunStart \/ SyncMarkets \/ SyncFails \/ ReadRegistry \/ RunEnd

\* ------------------------------------------------------------------------
\* backfill-cvd-history
\* ------------------------------------------------------------------------
BACKFILL_INTERVAL_MS == 60 * 1000

\* Times of upstream trades around T0, at which the earliest stored
\* snapshot sits: two earlier minutes, the second one with two trades, and
\* one later minute.
BfTimes ==
  { T0 - 2 * BACKFILL_INTERVAL_MS, T0 - BACKFILL_INTERVAL_MS,
    T0 - BACKFILL_INTERVAL_MS + 1, T0 + BACKFILL_INTERVAL_MS }

\* allTrades: what the batch loop has collected, oldest first.
RECURSIVE BfFeedsOver(_, _)
BfFeedsOver(times, n) ==
  IF n = 0 \/ times = {} THEN { << >> }
  ELSE LET t == CHOOSE x \in times : \A y \in times : x <= y
           rest == BfFeedsOver(times \ {t}, n)
           shorter == BfFeedsOver(times \ {t}, n - 1)
       IN rest \cup { << [T |-> t, q |-> 1, m |-> m, p |-> BASE_PRICE] >> \o f :
                        m \in BOOLEAN, f \in shorter }
BfFeeds == BfFeedsOver(BfTimes, MaxBfTrades)

\* The earliest row of the symbol in cvd_data, if it has one.
BfExisting ==
  { None } \cup
  { Some([symbol |-> SymGood, timestamp |-> T0, price |-> BASE_PRICE, cvd |-> c,
          open_interest |-> None, open_interest_value |-> None]) : c \in { 0, 5 } }

\* The loop over allTrades: per one-minute interval the running CVD, the
\* price and the time of its last trade, in the order the intervals first
\* appear.
RECURSIVE cvdByIntervalOf(_, _, _)
cvdByIntervalOf(allTrades, runningCvd, points) ==
  IF allTrades = << >> THEN points
  ELSE LET trade == Head(allTrades)
           delta == IF trade.m THEN -trade.q ELSE trade.q
           intervalKey == (trade.T \div BACKFILL_INTERVAL_MS) * BACKFILL_INTERVAL_MS
           point == [key |-> intervalKey, cvd |-> runningCvd + delta,
                     price |-> trade.p, timestamp |-> trade.T]
           at == { i \in DOMAIN points : points[i].key = intervalKey }
       IN cvdByIntervalOf(Tail(allTrades), runningCvd + delta,
            IF at = {} THEN Append(points, point)
            ELSE [ i \in DOMAIN points |-> IF i \in at THEN point ELSE points[i] ])

\* The offset that is added to every record when the symbol has rows.
backfillOffset(existingData, records) ==
  Val(existingData).cvd - records[Len(records)].cvd

cvdRecordsOf(existingData, allTrades) ==
  LET points == cvdByIntervalOf(allTrades, 0, << >>)
      records == [ i \in DOMAIN points |->
                     [symbol |-> SymGood, timestamp |-> points[i].timestamp,
                      cvd |-> points[i].cvd, price |-> points[i].price,
                      open_interest |-> None, open_interest_value |-> None] ]
  IN IF existingData # None /\ Len(records) > 0
       THEN [ i \in DOMAIN records |->
                [records[i] EXCEPT !.cvd = @ + backfillOffset(existingData, records)] ]
       ELSE records

IdleBf == [pc |-> "idle", existingData |-> None, allTrades |-> << >>,
           cvdRecords |-> << >>, cvd_data |-> << >>]

\* One request: the trades are collected, the earliest row is read, and
\* the records are upserted.  Without trades nothing is written.
BackfillRequest ==
  \E existingData \in BfExisting, allTrades \in BfFeeds :
    LET table == IF existingData = None THEN << >> ELSE << Val(existingData) >>
        cvdRecords == IF allTrades = << >> THEN << >>
                      ELSE cvdRecordsOf(existingData, allTrades)
    IN /\ bf.pc = "idle"
       /\ bf' = [pc |-> "done", existingData |-> existingData, allTrades |-> allTrades,
                 cvdRecords |-> cvdRecords, cvd_data |-> UpsertRows(table, cvdRecords)]
       /\ UNCHANGED << storeVars, sched, fw, cls, whale, tg, reg, pg, walk, pct >>

\* ------------------------------------------------------------------------
\* fetchCvdDeltas, request by request
\* ------------------------------------------------------------------------
\* The range of the call: PgHalfRangeMs milliseconds on either side of a
\* bucket boundary.
PgBoundary == T0 + SNAP_INTERVAL_MS
PgStart == PgBoundary - PgHalfRangeMs
PgEnd == PgBoundary + PgHalfRangeMs

\* The upstream's trades around the range, oldest first, each a buy of
\* quantity 1, so that a bucket's delta counts its trades; several may share
\* a millisecond.
RECURSIVE PgFeedsFrom(_, _)
PgFeedsFrom(t, n) ==
  IF n = 0 \/ t > PgEnd THEN { << >> }
  ELSE PgFeedsFrom(t + 1, n) \cup
       { << [T |-> t, q |-> 1, m |-> FALSE] >> \o f : f \in PgFeedsFrom(t, n - 1) }
PgFeeds == PgFeedsFrom(PgStart - 1, MaxPgTrades)

\* Pages of an upstream that ignores the request: trades in any order, from
\* before the range, inside it and after it.
OddTimes == { PgStart - 1, PgBoundary, PgEnd }
OddTrades == { [T |-> t, q |-> 1, m |-> FALSE] : t \in OddTimes }
RECURSIVE OddPagesOf(_)
OddPagesOf(n) ==
  IF n = 0 THEN { << >> }
  ELSE OddPagesOf(n - 1) \cup
       { << t >> \o p : t \in OddTrades, p \in { q \in OddPagesOf(n - 1) : Len(q) = n - 1 } }
OddPages == OddPagesOf(PageCap) \ { << >> }

IdlePg ==
  [pc |-> "idle", feed |-> << >>, cursor |-> 0, deltas |-> << >>,
   requests |-> 0, pages |-> << >>,
   \* every page so far was the upstream's answer to the request made
   honest |-> TRUE,
   \* the loop was left on a failed fetch, on a malformed payload
   failed |-> FALSE, malformed |-> FALSE]

\* let cursor = startTime
PgCall ==
  \E feed \in PgFeeds :
    /\ pg.pc = "idle"
    /\ pg' = [IdlePg EXCEPT !.pc = "loop", !.feed = feed, !.cursor = PgStart]
    /\ UNCHANGED << storeVars, sched, fw, cls, whale, tg, reg, bf, walk, pct >>

\* One turn of the while loop on an array payload.
PgTurn(page, honest) ==
  LET folded == FoldPage(page, PgStart, PgEnd,
                         [deltas |-> pg.deltas, maxTimestamp |-> pg.cursor])
      received == [pg EXCEPT !.requests = @ + 1,
                             !.pages = Append(@, Len(page)),
                             !.honest = @ /\ honest]
  IN IF Len(page) = 0
       THEN [received EXCEPT !.pc = "returned"]
       ELSE [received EXCEPT !.deltas = folded.deltas,
                             !.cursor = nextCursor(page, PageCap, pg.cursor,
                                                   folded.maxTimestamp)]

\* The upstream answers the request: the first trades from the cursor on.
PgHonestPage ==
  /\ pg.pc = "loop"
  /\ pg.cursor < PgEnd
  /\ pg' = PgTurn(TradePage(pg.feed, pg.cursor, PgEnd - 1, PageCap), TRUE)
  /\ UNCHANGED << storeVars, sched, fw, cls, whale, tg, reg, bf, walk, pct >>

\* The upstream answers with some other array of trades.
PgOddPage ==
  \E page \in OddPages :
    /\ pg.pc = "loop"
    /\ pg.cursor < PgEnd
    /\ pg' = PgTurn(page, FALSE)
    /\ UNCHANGED << storeVars, sched, fw, cls, whale, tg, reg, bf, walk, pct >>

\* The last entry of a full page has a T that is not a number: the entries
\* before it are folded and the loop is left.
PgNonFiniteLast ==
  \E page \in OddPages \cup { << >> } :
    /\ pg.pc = "loop"
    /\ pg.cursor < PgEnd
    /\ Len(page) = PageCap - 1
    /\ pg' = [pg EXCEPT !.pc = "returned",
                        !.requests = @ + 1,
                        !.pages = Append(@, PageCap),
                        !.honest = FALSE,
                        !.deltas = FoldPage(page, PgStart, PgEnd,
                                     [deltas |-> pg.deltas,
                                      maxTimestamp |-> pg.cursor]).deltas]
    /\ UNCHANGED << storeVars, sched, fw, cls, whale, tg, reg, bf, walk, pct >>

\* The payload is not an array: break.
PgMalformed ==
  /\ pg.pc = "loop"
  /\ pg.cursor < PgEnd
  /\ pg' = [pg EXCEPT !.pc = "returned", !.requests = @ + 1,
                      !.honest = FALSE, !.malformed = TRUE]
  /\ UNCHANGED << storeVars, sched, fw, cls, whale, tg, reg, bf, walk, pct >>

\* fetchWithRetry throws: caught, break.
PgFetchFails ==
  /\ pg.pc = "loop"
  /\ pg.cursor < PgEnd
  /\ pg' = [pg EXCEPT !.pc = "returned", !.requests = @ + 1, !.failed = TRUE]
  /\ UNCHANGED << storeVars, sched, fw, cls, whale, tg, reg, bf, walk, pct >>

\* while (cursor < endExclusive) is false: return deltas.
PgReturn ==
  /\ pg.pc = "loop"
  /\ pg.cursor >= PgEnd
  /\ pg' = [pg EXCEPT !.pc = "returned"]
  /\ UNCHANGED << storeVars, sched, fw, cls, whale, tg, reg, bf, walk, pct >>

PgLoop ==
  PgHonestPage \/ PgOddPage \/ PgNonFiniteLast \/ PgMalformed \/ PgFetchFails
    \/ PgReturn

\* ------------------------------------------------------------------------
\* The bucket walk on given series
\* ------------------------------------------------------------------------
WalkBuckets == generateBuckets(T0, T0 + (MaxWalkBuckets - 1) * SNAP_INTERVAL_MS)
WalkBucketSet == { WalkBuckets[i] : i \in DOMAIN WalkBuckets }

\* The latest row of the symbol: none, or the row of the bucket before the
\* first bucket walked.
WalkLatestRows ==
  { None,
    Some([symbol |-> SymGood, timestamp |-> T0 - SNAP_INTERVAL_MS, price |-> BASE_PRICE,
          cvd |-> 5, open_interest |-> None, open_interest_value |-> None]) }

\* The price series answers for some of the buckets, the trade feed has
\* deltas for some of them.
WalkPriceMaps == UNION { [ S -> { BASE_PRICE + 1 } ] : S \in SUBSET WalkBucketSet }
WalkCvdDeltas == UNION { [ S -> { -1, 2 } ] : S \in SUBSET WalkBucketSet }

IdleWalk ==
  [pc |-> "idle", latestRow |-> None, priceMap |-> << >>, cvdDeltas |-> << >>,
   rowsToUpsert |-> << >>]

\* The loop over the buckets in processCoin, on given series.
WalkBucketsStep ==
  \E latestRow \in WalkLatestRows, priceMap \in WalkPriceMaps,
     cvdDeltas \in WalkCvdDeltas :
    /\ walk.pc = "idle"
    /\ walk' = [pc |-> "done", latestRow |-> latestRow, priceMap |-> priceMap,
                cvdDeltas |-> cvdDeltas,
                rowsToUpsert |-> rowsToUpsertOf(SymGood, latestRow, WalkBuckets,
                                                priceMap, << >>, cvdDeltas)]
    /\ UNCHANGED << storeVars, sched, fw, cls, whale, tg, reg, bf, pg, pct >>

\* ------------------------------------------------------------------------
\* safePercentChange near the floor
\* ------------------------------------------------------------------------
\* Numbers counted in units of 1e-9, of which the floor 1e-8 is ten; None is
\* NaN or an infinity.
PctCurrents == { None } \cup { Some(x) : x \in { -30, -11, -10, 0, 10, 11, 30 } }
PctPreviouses ==
  { None } \cup
  { Some(x) : x \in { -40, -20, -11, -10, -9, -5, 0, 5, 9, 10, 11, 20, 40 } }

IdlePct == [pc |-> "idle", current |-> None, previous |-> None, result |-> PctZero]

PercentChange ==
  \E current \in PctCurrents, previous \in PctPreviouses :
    /\ pct.pc = "idle"
    /\ pct' = [pc |-> "returned", current |-> current, previous |-> previous,
               result |-> safePercentChangeAt(current, previous, EPSILON_NANO)]
    /\ UNCHANGED << storeVars, sched, fw, cls, whale, tg, reg, bf, pg, walk >>

InitRest ==
  /\ sched = IdleSched
  /\ fw = IdleFw
  /\ cls = IdleCls
  /\ whale = IdleWhale
  /\ tg = IdleTg
  /\ reg = IdleReg
  /\ bf = IdleBf
  /\ pg = IdlePg
  /\ walk = IdleWalk
  /\ pct = IdlePct

Init == InitStore /\ InitRest

\* Invocations may overlap in time.
Next == Environment \/ \E r \in Runners : processCoin(r)
Spec == Init /\ [][Next]_vars

\* One invocation at a time.
NextSeq == Environment \/ processCoin(Runner1)
SpecSeq == Init /\ [][NextSeq]_vars

\* One invocation at a time, store and upstream failures included.
NextFault == Environment \/ processCoin(Runner1) \/ processCoinFaults(Runner1)
SpecFault == Init /\ [][NextFault]_vars

\* One invocation at a time against an upstream whose mark price and open
\* interest move.
NextMarket == NextSeq \/ PriceMove \/ OiMove
SpecMarket == Init /\ [][NextMarket]_vars

\* One scheduler run over the registry.
SpecSched == Init /\ [][serve]_vars

\* Calls of fetchWithRetry against an arbitrary upstream.
\* Calls of determineAlert on sample rows.
SpecClassify == Init /\ [][Classify \/ ClassifyWindow \/ ClassifyOffGrid]_vars

\* Calls of detectWhaleSignal on sample inputs.
SpecWhale == Init /\ [][DetectWhaleSignal]_vars

\* Requests to the notification dispatcher.
SpecTelegram == Init /\ [][telegramAlert]_vars

\* Collection runs as far as they touch the registry.
SpecRegistry == Init /\ [][collectionRun]_vars

\* Requests to the history backfill.
SpecBackfill == Init /\ [][BackfillRequest]_vars

\* safePercentChange on given numbers.
SpecPercent == Init /\ [][PercentChange]_vars

\* The bucket walk of processCoin on given series.
SpecWalk == Init /\ [][WalkBucketsStep]_vars

\* One call of fetchCvdDeltas; a turn of its loop that can be taken is
\* taken, every awaited fetch being answered or failing.
SpecPages == Init /\ [][PgCall \/ PgLoop]_vars /\ WF_vars(PgLoop)

\* Every fetch answers or is aborted by its 12 s timeout, and every backoff
\* timer fires.
SpecRetry ==
  Init /\ [][fetchWithRetry]_vars /\ WF_vars(FwAttempt) /\ WF_vars(FwWake)

\* ------------------------------------------------------------------------
\* Properties: the snapshot store
\* ------------------------------------------------------------------------
\* C1: after any sequence of runs, overlapping ones included, cvd_data holds
\* at most one row per (symbol, bucket timestamp): a write to an existing
\* key replaces the row.
C1_OneRowPerKey ==
  \A i \in DOMAIN cvd_data, j \in DOMAIN cvd_data :
    (cvd_data[i].symbol = cvd_data[j].symbol
       /\ cvd_data[i].timestamp = cvd_data[j].timestamp) => i = j

\* Two invocations in the same bucket have both upserted, and the upsert of
\* the second met keys that the first had written.
C1_OverlappingUpsertsMet ==
  /\ run[Runner1].upserted /\ run[Runner2].upserted
  /\ run[Runner1].symbol = run[Runner2].symbol
  /\ run[Runner1].currentBucket = run[Runner2].currentBucket
  /\ run[Runner1].replaced \/ run[Runner2].replaced

\* The signed sum of every trade of the feed whose time lies in the bucket.
RECURSIVE SignedSum(_, _, _)
SignedSum(feed, bucket, k) ==
  IF k > Len(feed) THEN 0
  ELSE (IF alignToInterval(feed[k].T) = bucket
          THEN (IF feed[k].m THEN -feed[k].q ELSE feed[k].q)
          ELSE 0)
       + SignedSum(feed, bucket, k + 1)

bucket_delta(s) == SignedSum(trades, s.timestamp, 1)

\* Row p is the predecessor of row s: the newest row of the symbol older
\* than s.
IsPredecessor(p, s) ==
  /\ cvd_data[p].symbol = cvd_data[s].symbol
  /\ cvd_data[p].timestamp < cvd_data[s].timestamp
  /\ \A k \in DOMAIN cvd_data :
       (cvd_data[k].symbol = cvd_data[s].symbol
          /\ cvd_data[k].timestamp < cvd_data[s].timestamp)
       => cvd_data[k].timestamp <= cvd_data[p].timestamp

\* C2, as claimed: between runs, every stored snapshot s that has a
\* predecessor and whose bucket is over (a later row exists) satisfies
\* s.cvd = predecessor.cvd + bucket_delta(s), the delta taken over all the
\* upstream trades of s's bucket.
C2_CvdIsPredecessorPlusBucketDelta ==
  run[Runner1].pc \in { "idle", "done" } =>
    \A s \in DOMAIN cvd_data, p \in DOMAIN cvd_data :
      (IsPredecessor(p, s)
         /\ \E later \in DOMAIN cvd_data : IsPredecessor(s, later))
      => cvd_data[s].cvd = cvd_data[p].cvd + bucket_delta(cvd_data[s])

C4_NoOpWhenUpToDate ==
  \A r \in Runners :
    (/\ run[r].latestRow # None
     /\ alignToInterval(Val(run[r].latestRow).timestamp) >= run[r].currentBucket)
    => /\ run[r].pc = "done"
       /\ run[r].outcome = "fulfilled"
       /\ run[r].requests = 0
       /\ ~run[r].upserted
       /\ ~run[r].classified
       /\ ~run[r].inserted

\* An invocation found its symbol's latest snapshot in the current bucket.
C4_FoundUpToDate ==
  /\ run[Runner1].pc = "done"
  /\ run[Runner1].latestRow # None
  /\ Val(run[Runner1].latestRow).timestamp = run[Runner1].currentBucket
  /\ run[Runner1].currentBucket = alignToInterval(now)

\* The alert rows of one (symbol, category) created at or after `since`.
AlertsOf(symbol, alertType, since) ==
  { i \in DOMAIN alerts :
      /\ alerts[i].symbol = symbol
      /\ alerts[i].alert_type = alertType
      /\ alerts[i].created_at >= since }

CeilDiv(n, b) == (n + b - 1) \div b

Responded == sched.pc = "done" /\ sched.n >= 1

\* C6: whatever pipelines reject, every enabled symbol is processed exactly
\* once in the run, and the run answers success with processed = the number
\* of enabled symbols and successful + failed = processed.
C6_EveryCoinOnce ==
  /\ \A c \in DOMAIN sched.starts : sched.starts[c] <= 1
  /\ Responded =>
       /\ \A c \in 1..sched.n : sched.starts[c] = 1
       /\ Len(sched.results) = sched.n
       /\ Val(sched.response).success
       /\ Val(sched.response).processed = Some(sched.n)
       /\ Val(Val(sched.response).successful) + Val(Val(sched.response).failed)
            = sched.n
       /\ Val(Val(sched.response).failed)
            = Cardinality({ k \in DOMAIN sched.results : sched.results[k] = "rejected" })

\* A run over several batches answered although pipelines rejected.
C6_RespondedWithRejections ==
  /\ Responded
  /\ sched.n > BATCH_SIZE
  /\ Val(Val(sched.response).failed) >= 2
  /\ Val(Val(sched.response).successful) >= 1

\* C7: n enabled symbols are run as ceil(n/B) consecutive batches of B
\* symbols, the last holding the remainder, with exactly ceil(n/B) - 1
\* pacing delays: one between two batches, none after the last.
C7_BatchesAndDelays ==
  /\ \A k \in DOMAIN sched.batches :
       sched.batches[k] =
         ((k - 1) * BATCH_SIZE + 1)..(IF k * BATCH_SIZE < sched.n
                                         THEN k * BATCH_SIZE ELSE sched.n)
  /\ sched.n >= 1 => sched.delays <= CeilDiv(sched.n, BATCH_SIZE) - 1
  /\ sched.pc = "delay" =>
       /\ sched.delays = Len(sched.batches) - 1
       /\ Len(sched.batches) < CeilDiv(sched.n, BATCH_SIZE)
  /\ Responded =>
       /\ Len(sched.batches) = CeilDiv(sched.n, BATCH_SIZE)
       /\ sched.delays = CeilDiv(sched.n, BATCH_SIZE) - 1

\* Seven symbols were run as batches of 3, 3 and 1 with two delays.
C7_SevenCoins ==
  /\ Responded
  /\ sched.n = 7
  /\ Len(sched.batches) = 3
  /\ Cardinality(sched.batches[3]) = 1
  /\ sched.delays = 2

\* C8: at most B pipelines are in flight at any moment, and every pipeline
\* in flight belongs to the batch started last: no symbol of batch k+1
\* starts before every symbol of batch k has settled.
C8_BoundedInFlight ==
  /\ Cardinality(sched.inflight) <= BATCH_SIZE
  /\ sched.inflight # {} =>
       sched.inflight \subseteq sched.batches[Len(sched.batches)]

\* A full second batch is in flight after a first whose pipelines settled,
\* one of them rejected.
C8_SecondBatchInFlight ==
  /\ Len(sched.batches) = 2
  /\ Cardinality(sched.inflight) = BATCH_SIZE
  /\ \E k \in DOMAIN sched.results : sched.results[k] = "rejected"

\* ------------------------------------------------------------------------
\* Properties: fetchWithRetry
\* ------------------------------------------------------------------------
LastStatus == fw.statuses[Len(fw.statuses)]

\* The safety part of C9.
C9_Safe ==
  /\ Len(fw.statuses) <= fw.retries0 + 1
  /\ Len(fw.statuses) <= 4
  /\ fw.pc = "returned" => LastStatus \in 200..299
  /\ (fw.pc # "idle" /\ Len(fw.statuses) = fw.retries0 + 1
        /\ LastStatus \notin 200..299) => fw.pc = "raised"

\* C9: one call performs at most retries + 1 fetches, 4 with the default;
\* it returns only after a fetch whose status is OK, it raises when the
\* last fetch allowed has failed, and every call ends by returning or
\* raising.
C9_BoundedAttempts ==
  /\ []C9_Safe
  /\ (fw.pc = "fetch") ~> (fw.pc \in { "returned", "raised" })

\* A call with the default budget made four fetches, all failed, and raised.
C9_Exhausted ==
  /\ fw.pc = "raised"
  /\ fw.retries0 = RETRIES_DEFAULT
  /\ Len(fw.statuses) = 4
  /\ Len(fw.sleeps) = 3

\* C10, as claimed: a backoff follows only a fetch that answered 418, 429,
\* 5xx or failed at transport level; after any other status that is not OK
\* the call has raised, having slept and fetched no more.
C10_RetriesOnlyRetryable ==
  /\ \A k \in DOMAIN fw.sleeps :
       LET status == fw.statuses[fw.sleeps[k]]
       IN status = 0 \/ status = 418 \/ status = 429 \/ status >= 500
  /\ \A k \in DOMAIN fw.statuses :
       (fw.statuses[k] \in 300..499 /\ fw.statuses[k] \notin { 418, 429 })
       => k = Len(fw.statuses) /\ fw.pc = "raised"

\* ------------------------------------------------------------------------
\* Properties: the failures of a symbol's cycle
\* ------------------------------------------------------------------------
\* The invocation of the malformed symbol "bUSDT" is over and rejected, and
\* has done nothing else.
InvalidSymbolRejected(r) ==
  (run[r].pc # "idle" /\ run[r].symbol = SymBad) =>
    /\ run[r].pc = "done"
    /\ run[r].outcome = "rejected"
    /\ run[r].requests = 0
    /\ run[r].latestRow = None
    /\ ~run[r].upserted
    /\ ~run[r].classified
    /\ ~run[r].inserted
    /\ ~run[r].suppressed

\* C11: a symbol that does not match ^[A-Z0-9]{1,10}USDT$ is rejected by
\* processCoin before any upstream request and any store read or write (the
\* rejected promise is what serve counts as failed), and the step that
\* rejects it leaves the store as it was for the other symbols.
C11_InvalidSymbolRejectedFirst ==
  /\ [](\A r \in Runners : InvalidSymbolRejected(r))
  /\ [][ (\E r \in Runners : run'[r] # run[r] /\ run'[r].symbol = SymBad)
           => (cvd_data' = cvd_data /\ alerts' = alerts) ]_vars

\* A malformed symbol was rejected while the store holds the snapshots of a
\* well-formed one.
C11_RejectedBesideStored ==
  /\ run[Runner1].pc = "done"
  /\ run[Runner1].symbol = SymBad
  /\ run[Runner1].outcome = "rejected"
  /\ cvd_data # << >>

\* C12, as claimed: a store failure at any persistence step of a cycle
\* (reading the latest snapshot, upserting, reading the recent snapshots
\* for classification, inserting the alert row) makes processCoin reject,
\* which is what serve counts as failed.
C12_StoreFailureRejects ==
  \A r \in Runners :
    (run[r].pc = "done"
       /\ run[r].storeError \in { "latestRow", "upsert", "recentRows", "alertInsert" })
    => run[r].outcome = "rejected"

\* C13, as claimed: when a series request of the cycle has failed after its
\* retries, processCoin rejects, which is what serve counts as failed.
C13_UpstreamFailureRejects ==
  \A r \in Runners :
    (run[r].pc = "done" /\ run[r].upstreamFailed) => run[r].outcome = "rejected"

\* ------------------------------------------------------------------------
\* Properties: the classification
\* ------------------------------------------------------------------------
\* The change of x against a reference y in percent, as num/den, for the
\* sample rows: zero for a zero reference.
ChangeNum(x, y) == IF y = 0 THEN 0 ELSE (x - y) * 100
ChangeDen(y) == IF y = 0 THEN 1 ELSE Abs(y)

ClsLatest == cls.recentData[1]
ClsRef == cls.recentData[2]
ClsPriceNum == ChangeNum(ClsLatest.price, ClsRef.price)
ClsPriceDen == ChangeDen(ClsRef.price)
ClsCvdNum == ChangeNum(ClsLatest.cvd, ClsRef.cvd)
ClsCvdDen == ChangeDen(ClsRef.cvd)
ClsOiNum ==
  IF ClsLatest.open_interest_value = None THEN 0
  ELSE ChangeNum(Val(ClsLatest.open_interest_value), Val(ClsRef.open_interest_value))
ClsOiDen ==
  IF ClsLatest.open_interest_value = None THEN 1
  ELSE ChangeDen(Val(ClsRef.open_interest_value))

\* |cvdChange%| > 150 or |priceChange%| > 50 on the classified rows.
ClsAnomaly ==
  \/ Abs(ClsCvdNum) > 150 * ClsCvdDen
  \/ Abs(ClsPriceNum) > 50 * ClsPriceDen

\* The five rule predicates on the classified rows.
ClsStrongBreakout ==
  ClsCvdNum >= 8 * ClsCvdDen /\ ClsPriceNum >= 3 * ClsPriceDen /\ ClsOiNum >= 3 * ClsOiDen
ClsAccumulation ==
  ClsCvdNum >= 12 * ClsCvdDen /\ Abs(ClsPriceNum) <= 1 * ClsPriceDen /\ ClsOiNum >= 0
ClsDistributionWarn ==
  ClsCvdNum <= -4 * ClsCvdDen /\ ClsPriceNum >= 1 * ClsPriceDen /\ ClsOiNum <= 0
ClsShortConfirm ==
  ClsCvdNum <= -6 * ClsCvdDen /\ ClsPriceNum <= -2 * ClsPriceDen /\ ClsOiNum >= 1 * ClsOiDen
ClsTopDivergence ==
  /\ Len(cls.recentData) >= 12
  /\ \A k \in 1..12 : ClsLatest.price * 1000 >= cls.recentData[k].price * 999
  /\ \E k \in 1..12 : ClsLatest.cvd * 100 < cls.recentData[k].cvd * 92

ClsClassified == cls.pc = "classified" /\ Len(cls.recentData) >= 2

\* C14: whenever |cvdChange%| > 150 or |priceChange%| > 50 between the
\* latest and the reference snapshot, determineAlert returns NONE whatever
\* rule would match, and processCoin returns without the alert steps, its
\* promise fulfilled.
C14_AnomalyGuardSuppresses ==
  (ClsClassified /\ ClsAnomaly) =>
    /\ cls.alertResult.alertType = "NONE"
    /\ cls.next = "done"

\* An implausible swing was classified NONE although the window shows a
\* top divergence.
C14_GuardOverTopDivergence ==
  /\ ClsClassified
  /\ ClsAnomaly
  /\ ClsTopDivergence
  /\ cls.alertResult.alertType = "NONE"

AlertTypes ==
  { "STRONG_BREAKOUT", "ACCUMULATION", "DISTRIBUTION_WARN", "SHORT_CONFIRM",
    "TOP_DIVERGENCE", "NONE" }

\* The first rule, in the order of the source, whose predicate holds.
ClsFirstMatch ==
  IF ClsStrongBreakout THEN "STRONG_BREAKOUT"
  ELSE IF ClsAccumulation THEN "ACCUMULATION"
  ELSE IF ClsDistributionWarn THEN "DISTRIBUTION_WARN"
  ELSE IF ClsShortConfirm THEN "SHORT_CONFIRM"
  ELSE IF ClsTopDivergence THEN "TOP_DIVERGENCE"
  ELSE "NONE"

\* C15: a classification yields one value of the six; on rows the anomaly
\* guard lets through it is the first rule, in the fixed order, whose
\* predicate holds, so TOP_DIVERGENCE only when none of the four percentage
\* rules match; and processCoin goes on to its one alert insert only for a
\* value other than NONE.
C15_FirstMatchingRuleWins ==
  cls.pc = "classified" =>
    /\ cls.alertResult.alertType \in AlertTypes
    /\ (Len(cls.recentData) < 2) => cls.alertResult.alertType = "NONE"
    /\ (ClsClassified /\ ~ClsAnomaly) => cls.alertResult.alertType = ClsFirstMatch
    /\ (ClsClassified /\ cls.alertResult.alertType = "TOP_DIVERGENCE") =>
         ~(ClsStrongBreakout \/ ClsAccumulation \/ ClsDistributionWarn \/ ClsShortConfirm)
    /\ (cls.next = "cooldown") <=> (cls.alertResult.alertType # "NONE")

\* A percentage rule and the window rule both held, and the percentage rule
\* was returned.
C15_BreakoutOverTopDivergence ==
  /\ ClsClassified
  /\ ~ClsAnomaly
  /\ ClsStrongBreakout
  /\ ClsTopDivergence
  /\ cls.alertResult.alertType = "STRONG_BREAKOUT"

\* ------------------------------------------------------------------------
\* Properties: the whale signal
\* ------------------------------------------------------------------------
WhaleReturned == whale.pc = "returned" /\ Len(whale.oiHistory) >= 2
WhalePrice == XDiv(whale.priceTenths, 10)
WhaleBuyHolds == whaleBuyRule(whale.oiHistory, WhalePrice, whale.volume24h)
WhaleSellHolds == whaleSellRule(whale.oiHistory, WhalePrice, whale.volume24h)
WhaleWashHolds == washTradingRule(whale.oiHistory, WhalePrice, whale.volume24h)

\* C16, as claimed: for every input at most one of the three rule
\* predicates (WHALE_BUY, WHALE_SELL, WASH_TRADING) holds.
C16_RulesMutuallyExclusive ==
  WhaleReturned =>
    /\ ~(WhaleBuyHolds /\ WhaleSellHolds)
    /\ ~(WhaleBuyHolds /\ WhaleWashHolds)
    /\ ~(WhaleSellHolds /\ WhaleWashHolds)

\* A 3-point history, newest first, whose OI notional rose by 20% or more
\* over the first interval and fell by 15% or more over the second, with a
\* net change within 3%, a price change within 2% and a latest notional of
\* 0.3M or more.
WashPattern ==
  /\ whale.pc = "returned"
  /\ Len(whale.oiHistory) = 3
  /\ whale.oiHistory[3] > 0
  /\ whale.oiHistory[2] > 0
  /\ (whale.oiHistory[2] - whale.oiHistory[3]) * 100 >= 20 * whale.oiHistory[3]
  /\ (whale.oiHistory[2] - whale.oiHistory[1]) * 100 >= 15 * whale.oiHistory[2]
  /\ Abs(whale.oiHistory[1] - whale.oiHistory[3]) * 100 <= 3 * whale.oiHistory[3]
  /\ Abs(whale.priceTenths) <= 20
  /\ whale.oiHistory[1] >= 3

\* C17, as claimed: on such a history detectWhaleSignal returns a
\* WASH_TRADING signal.
C17_WashPatternDetected ==
  WashPattern => (whale.signal # None /\ Val(whale.signal).type = "WASH_TRADING")

\* C18: every signal detectWhaleSignal returns carries a confidence within
\* [0,100]; with fewer than 2 OI history points, or when no rule matches,
\* it returns undefined.
C18_ConfidenceInRange ==
  whale.pc = "returned" =>
    /\ whale.signal # None =>
         /\ Val(whale.signal).confidence.d > 0
         /\ 0 <= Val(whale.signal).confidence.n
         /\ Val(whale.signal).confidence.n <= 100 * Val(whale.signal).confidence.d
    /\ Len(whale.oiHistory) < 2 => whale.signal = None
    /\ (WhaleReturned /\ ~WhaleBuyHolds /\ ~WhaleSellHolds /\ ~WhaleWashHolds)
         => whale.signal = None

\* A distribution signal whose score, far below zero for a price change of
\* +100%, was returned as 0.
C18_ClampedAtZero ==
  /\ WhaleReturned
  /\ whale.priceTenths = 1000
  /\ whale.signal # None
  /\ Val(whale.signal).type = "WHALE_SELL"
  /\ Val(whale.signal).confidence.n = 0

\* ------------------------------------------------------------------------
\* Properties: the notification dispatcher
\* ------------------------------------------------------------------------
\* C19, as claimed: an alert's telegram_sent is true only after that alert
\* was delivered to a subscriber; an alert whose delivery failed for every
\* subscriber, or for which there is no subscriber, keeps the flag unset.
C19_FlagOnlyAfterDelivery ==
  \A a \in AlertIds : tg.telegram_sent[a] => tg.delivered[a] >= 1

\* ------------------------------------------------------------------------
\* Properties: the registry
\* ------------------------------------------------------------------------
\* C20, as claimed: from the start to the end of a run no registry row is
\* inserted, enabled, disabled or deleted, and a symbol that was disabled
\* before the run is not processed.
C20_RegistryReadOnly ==
  reg.pc # "idle" =>
    /\ reg.monitored_coins = reg.before
    /\ \A s \in reg.monitoredCoins : reg.before[s] = "enabled"

\* ------------------------------------------------------------------------
\* Properties: the history backfill
\* ------------------------------------------------------------------------
\* The backfilled records at or before the earliest stored snapshot.
BfUpToEarliest ==
  { i \in DOMAIN bf.cvdRecords :
      bf.cvdRecords[i].timestamp <= Val(bf.existingData).timestamp }

\* C21, as claimed: when the symbol already has snapshots, the backfilled
\* cumulative CVD at the time of the earliest of them equals that
\* snapshot's CVD.
C21_BackfillJoinsEarliest ==
  (bf.pc = "done" /\ bf.existingData # None /\ BfUpToEarliest # {}) =>
    \E i \in BfUpToEarliest :
      /\ \A j \in BfUpToEarliest : bf.cvdRecords[j].timestamp <= bf.cvdRecords[i].timestamp
      /\ bf.cvdRecords[i].cvd = Val(bf.existingData).cvd

\* ------------------------------------------------------------------------
\* Properties: trades between runs, overlapping runs
\* ------------------------------------------------------------------------
\* The signed sum of the first k trades of the feed.
RECURSIVE SignedPrefix(_)
SignedPrefix(k) ==
  IF k = 0 THEN 0
  ELSE SignedPrefix(k - 1) + (IF trades[k].m THEN -trades[k].q ELSE trades[k].q)

\* C22, as claimed: between runs the latest stored CVD is the seed 0 plus
\* the signed sum of the upstream trades up to some moment of the latest
\* stored bucket: every trade of an earlier bucket is in it, also one that
\* arrived after its bucket's snapshot was written.
C22_NoTradeLost ==
  (run[Runner1].pc \in { "idle", "done" } /\ LatestRow(cvd_data, SymGood) # None) =>
    \E k \in 0..Len(trades) :
      /\ \A i \in 1..Len(trades) :
           trades[i].T < Val(LatestRow(cvd_data, SymGood)).timestamp => i <= k
      /\ Val(LatestRow(cvd_data, SymGood)).cvd = SignedPrefix(k)

\* C23, as claimed: also when two invocations overlap and classify the
\* symbol into the same category, at most one alert row of a (symbol,
\* category) is persisted within 15 minutes.
C23_OverlapOneAlert ==
  \A i \in DOMAIN alerts, j \in DOMAIN alerts :
    (/\ alerts[i].symbol = alerts[j].symbol
     /\ alerts[i].alert_type = alerts[j].alert_type
     /\ Abs(alerts[i].created_at - alerts[j].created_at) <= COOLDOWN_MS)
    => i = j

\* Row i of cvd_data has its successor stored: a row of the symbol for the
\* next bucket.
HasSuccessor(i) ==
  \E j \in DOMAIN cvd_data :
    /\ cvd_data[j].symbol = cvd_data[i].symbol
    /\ cvd_data[j].timestamp = cvd_data[i].timestamp + SNAP_INTERVAL_MS

\* C24, as claimed: under overlapping invocations, once the rows of bucket
\* b and of bucket b+1 are stored, no step of a slower invocation changes
\* the CVD of row b, so that the two keep differing by the delta the later
\* row was written with.
C24_StableUnderOverlap ==
  [][ \A i \in DOMAIN cvd_data :
        HasSuccessor(i) =>
          /\ i \in DOMAIN cvd_data'
          /\ cvd_data'[i].cvd = cvd_data[i].cvd ]_vars

\* The window of the classified rows is full, and its maximum price and
\* maximum CVD are the given ones.
ClsWindowMax(maxPrice, maxCvd) ==
  /\ cls.pc = "classified"
  /\ Len(cls.recentData) = TOP_DIVERGENCE_WINDOW
  /\ \A k \in 1..TOP_DIVERGENCE_WINDOW :
       cls.recentData[k].price <= maxPrice /\ cls.recentData[k].cvd <= maxCvd
  /\ \E k \in 1..TOP_DIVERGENCE_WINDOW : cls.recentData[k].price = maxPrice
  /\ \E k \in 1..TOP_DIVERGENCE_WINDOW : cls.recentData[k].cvd = maxCvd

\* No percentage rule matches and the anomaly guard is not triggered.
ClsQuiet ==
  /\ ~ClsAnomaly
  /\ ~(ClsStrongBreakout \/ ClsAccumulation \/ ClsDistributionWarn \/ ClsShortConfirm)

\* C25, as claimed (prices in hundredths): in a 12-snapshot window with
\* maximum price 100.00 and maximum CVD 105, no percentage rule matching and
\* the guard not triggered, a latest snapshot with price 99.95 and CVD 92
\* gives no TOP_DIVERGENCE, and one with price 99.95 and CVD 90 gives
\* TOP_DIVERGENCE.
C25_BoundaryAt92Of105 ==
  (ClsWindowMax(10000, 105) /\ ClsLatest.price = 9995 /\ ClsQuiet) =>
    /\ ClsLatest.cvd = 92 => cls.alertResult.alertType # "TOP_DIVERGENCE"
    /\ ClsLatest.cvd = 90 => cls.alertResult.alertType = "TOP_DIVERGENCE"

\* C25, amended (prices in hundredths): the CVD comparison is exclusive at
\* 92% of the window maximum. With maximum price 100.00, latest price 99.95,
\* no percentage rule matching and the guard not triggered: under a maximum
\* CVD of 105 (92% of it is 96.6) a latest CVD of 92, of 90 and of 96 give
\* TOP_DIVERGENCE and one of 97 gives NONE; under a maximum CVD of 100 a
\* latest CVD of 92, at the boundary, gives NONE and one of 90 gives
\* TOP_DIVERGENCE.
C25_ExclusiveAt92Percent ==
  /\ (ClsWindowMax(10000, 105) /\ ClsLatest.price = 9995 /\ ClsQuiet) =>
       /\ ClsLatest.cvd \in { 90, 92, 96 } => cls.alertResult.alertType = "TOP_DIVERGENCE"
       /\ ClsLatest.cvd = 97 => cls.alertResult.alertType = "NONE"
  /\ (ClsWindowMax(10000, 100) /\ ClsLatest.price = 9995 /\ ClsQuiet) =>
       /\ ClsLatest.cvd = 92 => cls.alertResult.alertType = "NONE"
       /\ ClsLatest.cvd = 90 => cls.alertResult.alertType = "TOP_DIVERGENCE"

\* The latest snapshot of the claim, price 99.95 and CVD 92 under the
\* maxima 100.00 and 105, was classified TOP_DIVERGENCE.
C25_Cvd92Under105Fires ==
  /\ ClsWindowMax(10000, 105)
  /\ ClsLatest.price = 9995
  /\ ClsLatest.cvd = 92
  /\ ClsQuiet
  /\ cls.alertResult.alertType = "TOP_DIVERGENCE"

\* ------------------------------------------------------------------------
\* Properties: pagination of the trade feed
\* ------------------------------------------------------------------------
\* A short page that was not empty has been received in this call.
PgShortPageSeen ==
  \E i \in DOMAIN pg.pages : pg.pages[i] > 0 /\ pg.pages[i] < PageCap

\* C26, as claimed: once an upstream that answers every request as asked
\* has returned a page of fewer trades than the page cap, and at least one,
\* fetchCvdDeltas issues no further request for the range.
C26_ShortPageEndsPagination ==
  [][ (pg.honest /\ PgShortPageSeen) => pg'.requests = pg.requests ]_vars

\* The trades of the feed within the range that fall into bucket b.
PgInRange == { i \in DOMAIN pg.feed : pg.feed[i].T >= PgStart /\ pg.feed[i].T < PgEnd }
RECURSIVE PgExpected(_, _)
PgExpected(i, b) ==
  IF i = 0 THEN 0
  ELSE PgExpected(i - 1, b) +
       (IF i \in PgInRange /\ alignToInterval(pg.feed[i].T) = b
          THEN (IF pg.feed[i].m THEN -pg.feed[i].q ELSE pg.feed[i].q)
          ELSE 0)

PgAnswered == pg.pc = "returned" /\ pg.honest /\ ~pg.failed

\* C27, as claimed: when every request of a call was answered as asked, the
\* delta returned for each bucket is the sum over the upstream's trades of
\* the range in that bucket, each taken once, also when trades share the
\* millisecond at which a full page ends.
C27_EveryTradeOnce ==
  PgAnswered =>
    \A b \in { T0, PgBoundary } \cup DOMAIN pg.deltas :
      MapGet(pg.deltas, b, 0) = PgExpected(Len(pg.feed), b)

\* C28: every turn of the loop that does not leave it moves the cursor
\* strictly forward, no request is made once the cursor has reached the
\* range end, a call that has returned did so with the cursor at the range
\* end, after an empty or malformed page, a failed fetch or a last timestamp
\* that is no number, and every call returns, whatever the upstream answers.
C28_PaginationTerminates ==
  /\ [][ /\ (pg.pc = "loop" /\ pg'.pc = "loop") => pg'.cursor > pg.cursor
         /\ (pg.pc = "loop" /\ pg.cursor >= PgEnd) => pg'.requests = pg.requests
         /\ (pg.pc = "loop" /\ pg'.pc = "returned") =>
              \/ pg.cursor >= PgEnd
              \/ pg'.failed
              \/ pg'.malformed
              \/ pg'.pages # << >> /\ pg'.pages[Len(pg'.pages)] \in { 0, PageCap } ]_vars
  /\ (pg.pc = "loop") ~> (pg.pc = "returned")

\* A call has returned at the range end after three pages, not all of them
\* answers to the request made.
C28_ReturnedAfterOddPages ==
  /\ pg.pc = "returned"
  /\ ~pg.honest
  /\ Len(pg.pages) >= 3
  /\ pg.cursor >= PgEnd

\* C29: when the upstream holds exactly a page cap of trades in the range,
\* the last of them before the last millisecond of the range, and answers
\* as asked, the first page is full, the second is empty and exactly two
\* fetches are made; a call that returned after one full page alone had
\* its cursor at the range end.
C29_FullPageThenEmpty ==
  /\ (/\ PgAnswered
      /\ Cardinality(PgInRange) = PageCap
      /\ \A i \in PgInRange : pg.feed[i].T + 1 < PgEnd) =>
       /\ pg.requests = 2
       /\ pg.pages = << PageCap, 0 >>
  /\ (PgAnswered /\ pg.pages = << PageCap >>) => pg.cursor >= PgEnd

\* A call was answered a full page and then an empty one, and returned.
C29_TwoFetches ==
  /\ PgAnswered
  /\ pg.pages = << PageCap, 0 >>
  /\ pg.requests = 2
  /\ pg.cursor < PgEnd

\* ------------------------------------------------------------------------
\* Properties: the bucket walk
\* ------------------------------------------------------------------------
WalkSeed == IF walk.latestRow # None THEN Val(walk.latestRow).cvd ELSE 0

\* The seed plus the deltas of the first k buckets walked.
RECURSIVE WalkSum(_)
WalkSum(k) ==
  IF k = 0 THEN WalkSeed
  ELSE WalkSum(k - 1) + MapGet(walk.cvdDeltas, WalkBuckets[k], 0)

\* Bucket k has a price: its own, that of the latest row or that of a
\* bucket walked before it.
WalkResolves(k) ==
  walk.latestRow # None \/ \E j \in 1..k : WalkBuckets[j] \in DOMAIN walk.priceMap

WalkRowAt(k) ==
  { i \in DOMAIN walk.rowsToUpsert : walk.rowsToUpsert[i].timestamp = WalkBuckets[k] }

\* C30: in one bucket walk a bucket with no resolvable price gets no row,
\* every other bucket gets one row, and the CVD of each row is the seed CVD
\* plus the deltas of all buckets walked up to it, the skipped ones included.
C30_CvdCarriesThroughSkipped ==
  walk.pc = "done" =>
    /\ Len(walk.rowsToUpsert) = Cardinality({ k \in DOMAIN WalkBuckets : WalkResolves(k) })
    /\ \A k \in DOMAIN WalkBuckets :
         /\ ~WalkResolves(k) => WalkRowAt(k) = {}
         /\ WalkResolves(k) =>
              \E i \in WalkRowAt(k) : walk.rowsToUpsert[i].cvd = WalkSum(k)

\* The first bucket had trades and no price and was skipped, and the second
\* bucket's row holds the deltas of both.
C30_RowAfterSkippedBucket ==
  /\ walk.pc = "done"
  /\ ~WalkResolves(1)
  /\ MapGet(walk.cvdDeltas, WalkBuckets[1], 0) # 0
  /\ WalkRowAt(1) = {}
  /\ \E i \in WalkRowAt(2) :
       walk.rowsToUpsert[i].cvd =
         walk.cvdDeltas[WalkBuckets[1]] + MapGet(walk.cvdDeltas, WalkBuckets[2], 0)

\* ------------------------------------------------------------------------
\* Properties: failed series, failed upsert, cold start
\* ------------------------------------------------------------------------
\* The invocation has its three series and has walked the buckets.
Walked(r) == run[r].pc \notin { "idle", "readLatest", "fetch" } /\ run[r].requests > 0

\* rowsToUpsert is at hand, about to be upserted.
RowsAtHand(r) == run[r].pc = "upsert"

RunBuckets(r) == generateBuckets(run[r].startBucket, run[r].currentBucket)

C32_UpsertFailureRejects ==
  \A r \in Runners :
    run[r].storeError = "upsert" =>
      /\ run[r].pc = "done"
      /\ run[r].outcome = "rejected"
      /\ ~run[r].upserted
      /\ ~run[r].classified
      /\ ~run[r].inserted
      /\ LatestRow(cvd_data, run[r].symbol) = run[r].latestRow
      /\ startBucketOf(LatestRow(cvd_data, run[r].symbol), run[r].currentBucket)
           = run[r].startBucket

\* An invocation seeded from a stored row, with a trade it had not seen
\* before, was rejected on its upsert.
C32_RejectedOnUpsert ==
  /\ run[Runner1].pc = "done"
  /\ run[Runner1].outcome = "rejected"
  /\ run[Runner1].storeError = "upsert"
  /\ run[Runner1].latestRow # None
  /\ run[Runner1].freshTrades

\* The invocation found no stored snapshot of its symbol.
ColdStart(r) ==
  /\ run[r].pc \notin { "idle", "readLatest" }
  /\ symbolPatternTest(run[r].symbol)
  /\ run[r].latestRow = None

\* C33, as claimed: on cold start the first bucket to fill is 24 intervals
\* before the current bucket, and the buckets enumerated run from it to the
\* current bucket inclusive in ascending steps of one interval.
C33_ColdStartLooksBack24 ==
  \A r \in Runners :
    ColdStart(r) =>
      /\ run[r].startBucket =
           run[r].currentBucket - SNAP_INTERVAL_MS * DEFAULT_BACKFILL_INTERVALS
      /\ RowsAtHand(r) =>
           /\ Len(run[r].rows) = DEFAULT_BACKFILL_INTERVALS + 1
           /\ \A i \in DOMAIN run[r].rows :
                run[r].rows[i].timestamp =
                  run[r].startBucket + (i - 1) * SNAP_INTERVAL_MS

\* C33, amended: on cold start the first bucket to fill is 23 intervals
\* (defaultBackfillIntervals - 1) before the current bucket, and the
\* buckets enumerated are 24, from it to the current bucket inclusive in
\* ascending steps of one interval.
C33_ColdStartFills24Buckets ==
  \A r \in Runners :
    ColdStart(r) =>
      /\ run[r].startBucket =
           run[r].currentBucket - SNAP_INTERVAL_MS * (DEFAULT_BACKFILL_INTERVALS - 1)
      /\ RowsAtHand(r) =>
           /\ Len(run[r].rows) = DEFAULT_BACKFILL_INTERVALS
           /\ \A i \in DOMAIN run[r].rows :
                run[r].rows[i].timestamp =
                  run[r].startBucket + (i - 1) * SNAP_INTERVAL_MS
           /\ run[r].rows[Len(run[r].rows)].timestamp = run[r].currentBucket

\* A cold start has its rows at hand, the first of them 23 intervals before
\* the current bucket.
C33_ColdStartRows ==
  /\ ColdStart(Runner1)
  /\ RowsAtHand(Runner1)
  /\ run[Runner1].rows[1].timestamp = run[Runner1].currentBucket - 23 * SNAP_INTERVAL_MS

\* ------------------------------------------------------------------------
\* Properties: the rules of determineAlert
\* ------------------------------------------------------------------------
\* How many of the five rule predicates hold on the classified rows.
ClsRulesHolding ==
  Cardinality({ t \in AlertTypes :
                  \/ t = "STRONG_BREAKOUT" /\ ClsStrongBreakout
                  \/ t = "ACCUMULATION" /\ ClsAccumulation
                  \/ t = "DISTRIBUTION_WARN" /\ ClsDistributionWarn
                  \/ t = "SHORT_CONFIRM" /\ ClsShortConfirm
                  \/ t = "TOP_DIVERGENCE" /\ ClsTopDivergence })

ClsPercentageRulesHolding ==
  Cardinality({ t \in AlertTypes :
                  \/ t = "STRONG_BREAKOUT" /\ ClsStrongBreakout
                  \/ t = "ACCUMULATION" /\ ClsAccumulation
                  \/ t = "DISTRIBUTION_WARN" /\ ClsDistributionWarn
                  \/ t = "SHORT_CONFIRM" /\ ClsShortConfirm })

\* C34, as claimed: on every input at most one of the five rule predicates
\* holds.
C34_RulesDisjoint ==
  ClsClassified => ClsRulesHolding <= 1

\* C34, amended: at most one of the four percentage rules holds on an
\* input; the window rule may hold together with one of them, and then,
\* unless the anomaly guard is triggered, the percentage rule is returned:
\* it is the order of evaluation that decides.
C34_PercentageRulesDisjoint ==
  ClsClassified =>
    /\ ClsPercentageRulesHolding <= 1
    /\ ClsRulesHolding <= 2
    /\ (ClsRulesHolding = 2 /\ ~ClsAnomaly) =>
         /\ ClsTopDivergence
         /\ cls.alertResult.alertType # "TOP_DIVERGENCE"
         /\ cls.alertResult.alertType # "NONE"

\* The distribution warning and the window rule both held, and the
\* distribution warning was returned.
C34_WarnOverTopDivergence ==
  /\ ClsClassified
  /\ ~ClsAnomaly
  /\ ClsDistributionWarn
  /\ ClsTopDivergence
  /\ cls.alertResult.alertType = "DISTRIBUTION_WARN"

\* The largest CVD of the 12-snapshot window of the classified rows.
ClsWindowMaxCvd ==
  LET cvds == { cls.recentData[k].cvd : k \in 1..TOP_DIVERGENCE_WINDOW }
  IN CHOOSE c \in cvds : \A d \in cvds : d <= c

\* C35, as claimed: TOP_DIVERGENCE is returned only when the CVD of the
\* latest snapshot is strictly below the largest CVD of the 12-snapshot
\* window, whatever the sign of the CVD values.
C35_TopDivergenceBelowMaxCvd ==
  (ClsClassified /\ cls.alertResult.alertType = "TOP_DIVERGENCE") =>
    ClsLatest.cvd < ClsWindowMaxCvd

\* The rows other than the latest that are at least one interval older
\* than it.
ClsQualifying ==
  { i \in 2..Len(cls.recentData) :
      cls.recentData[i].timestamp <= ClsLatest.timestamp - SNAP_INTERVAL_MS }

\* The reference of the classified rows: the most recent qualifying row,
\* the oldest row when none qualifies.
ClsReference ==
  IF ClsQualifying # {}
    THEN cls.recentData[CHOOSE i \in ClsQualifying :
                          \A j \in ClsQualifying :
                            \/ cls.recentData[j].timestamp < cls.recentData[i].timestamp
                            \/ cls.recentData[j].timestamp = cls.recentData[i].timestamp
                                 /\ i <= j]
    ELSE cls.recentData[Len(cls.recentData)]

ClsRefPrice == Pct(ChangeNum(ClsLatest.price, ClsReference.price), ChangeDen(ClsReference.price))
ClsRefCvd == Pct(ChangeNum(ClsLatest.cvd, ClsReference.cvd), ChangeDen(ClsReference.cvd))

\* C36: with fewer than 2 snapshots determineAlert returns NONE; else the
\* changes it computes are those of the latest snapshot against the most
\* recent other snapshot at least one interval older, or against the
\* oldest snapshot fetched when no snapshot is that old; they are what it
\* returns unless the anomaly guard is triggered on them.
C36_ReferenceSnapshot ==
  cls.pc = "classified" =>
    IF Len(cls.recentData) < 2
      THEN cls.alertResult = NoAlert
      ELSE IF PctGt(PctAbs(ClsRefCvd), 150) \/ PctGt(PctAbs(ClsRefPrice), 50)
        THEN cls.alertResult = NoAlert
        ELSE /\ cls.alertResult.priceChangePercent = ClsRefPrice
             /\ cls.alertResult.cvdChangePercent = ClsRefCvd

\* Three rows, none of them an interval older than the latest, were
\* classified against the oldest of them.
C36_FallsBackToOldest ==
  /\ cls.pc = "classified"
  /\ Len(cls.recentData) = 3
  /\ ClsQualifying = {}
  /\ cls.alertResult.cvdChangePercent = ClsRefCvd
  /\ ClsRefCvd.num # 0
  /\ ClsRefCvd # Pct(ChangeNum(ClsLatest.cvd, ClsRef.cvd), ChangeDen(ClsRef.cvd))

BaseScore(type) == IF type = "WASH_TRADING" THEN 70 ELSE 50

\* C38, as claimed: the confidence of every signal detectWhaleSignal
\* returns is at least the base score of its type, 50 for WHALE_BUY and
\* WHALE_SELL and 70 for WASH_TRADING.
C38_ConfidenceAtLeastBase ==
  (whale.pc = "returned" /\ whale.signal # None) =>
    XGe(Val(whale.signal).confidence, XInt(BaseScore(Val(whale.signal).type)))

====
